---- MODULE Spec2Model ----
(***************************************************************************)
(* LotoFacil-Tracker: result acquisition and bet reconciliation.           *)
(*                                                                         *)
(* The repository holds three revisions of the reconcile step, each a      *)
(* program of its own running against its own PostgreSQL store:            *)
(*   manual-entry  src/unnamed/part_000 lines 757-1376 (checkBetsWithResult *)
(*                 at 1037-1143, reached from POST /api/insert-result)      *)
(*   multi-source  src/unnamed/part_000 lines 1-755 (checkBetsWithResult    *)
(*                 at 409-511, reached from the hourly cron, force-check,  *)
(*                 check-bets and insert-result)                           *)
(*   server.js     src/server.js (checkPendingBets at 348-413)             *)
(* Each revision has its own specification over the same variables:        *)
(* SpecManual, SpecMulti, SpecServer. SpecFetch and SpecFetchFair run the  *)
(* multi-source fetchLatestResult source by source; SpecEnsure applies     *)
(* ensureExactly15Numbers to arrays of numbers.                            *)
(*                                                                         *)
(* Node runs one handler at a time and switches handlers only at an await, *)
(* so every action below is one awaited store query (or the awaited fetch) *)
(* of a handler together with the synchronous code that follows it up to   *)
(* the next await.                                                         *)
(* Money is held in cents (3.50 is 350).                                   *)
(***************************************************************************)
EXTENDS Integers, Sequences, FiniteSets, Bags, TLC

VARIABLES
    bets,      \* table bets: sequence of rows, the row's id is its index (SERIAL)
    results,   \* table results: set of rows, contest_number UNIQUE
    calls,     \* per handler slot: the running handler's locals and its outcome
    hist,      \* per handler slot: what the current call has done to the store (history)
    ncalls,    \* reconcile calls started so far (those answered 400 aside)
    nfail,     \* store errors raised so far
    okContests, \* contest numbers some returned call reported success for (history)
    gen,       \* the generator calls in flight (generateDailyBets, generate-custom)
    nruns,     \* generator calls made so far
    fetch,     \* GET /api/test-fetch: the fetchLatestResult call it runs
    ensure     \* ensureExactly15Numbers: the array it is called on and what it returned

vars == <<bets, results, calls, hist, ncalls, nfail, okContests, gen, nruns, fetch, ensure>>

---------------------------------------------------------------------------
(* Bounds of the model *)

\* Rows the bets table holds: a generator call goes no further once it is full
MaxBets == 2
\* Reconcile calls made in a behaviour
MaxCalls == 2
\* Queries the store answers with an error in a behaviour
MaxFailures == 1
\* Length of the longest array ensureExactly15Numbers is applied to
MaxInputLen == 27
\* Distinct numbers in the arrays ensureExactly15Numbers is applied to, at the
\* least: every outcome of the shuffle is gone through, and an array of d
\* distinct numbers under 15 has as many as there are ways to take 15 - d
\* of the 25 - d numbers it lacks (184 756 for 5, 3 268 760 for none)
MinDistinct == 5
\* Generator calls made in a behaviour: generateDailyBets runs and
\* POST /api/generate-custom requests, each request for one bet
MaxRuns == 1

\* The two handler slots: two requests / cron runs may be in flight at once.
Procs == {"p1", "p2"}

---------------------------------------------------------------------------
(* Values *)

\* A nullable column or an optional JS value: <<>> is NULL, <<v>> holds v.
Null == <<>>
Some(v) == <<v>>
IsNull(x) == x = <<>>
Val(x) == x[1]

\* a, a+1, ..., b as an array
Range(a, b) == [i \in 1..(b - a + 1) |-> a + i - 1]

\* JS values held in a result payload: a number, or a string holding a numeral.
JsNum(n) == [t |-> "number", v |-> n]
JsStr(n) == [t |-> "string", v |-> n]
AsNums(arr) == [i \in DOMAIN arr |-> JsNum(arr[i])]
AsStrs(arr) == [i \in DOMAIN arr |-> JsStr(arr[i])]

\* NaN, and a string that holds no numeral
NaN == [t |-> "nan", v |-> 0]
JsText == [t |-> "text", v |-> 0]

\* A JS array held where another kind of value may stand, and Array.isArray
JsArray(items) == [t |-> "array", items |-> items]
IsArray(x) == x.t = "array"

\* parseInt(x): a number stays (these models hold integers only), a numeral
\* string becomes its number, anything else gives NaN.
ParseInt(x) == IF x.t \in {"number", "string"} THEN JsNum(x.v) ELSE NaN

\* parseInt of a property that may be absent: parseInt(undefined) is NaN.
ParseIntOpt(o) == IF IsNull(o) THEN NaN ELSE ParseInt(Val(o))

\* What PostgreSQL stores in an INTEGER / INTEGER[] column for a JS parameter.
PgInt(x) == x.v
PgIntArray(arr) == [i \in DOMAIN arr |-> PgInt(arr[i])]

\* Array.prototype.includes: SameValueZero, so the number 1 is not the string "01".
Includes(arr, x) == \E j \in DOMAIN arr : arr[j] = x

\* The set of the elements of an array
Elems(arr) == {arr[j] : j \in DOMAIN arr}

\* new Set(arr).size
SetSize(arr) == Cardinality({arr[j] : j \in DOMAIN arr})

\* JS truthiness of a number or a non-empty string: 0 and NaN are falsy
Truthy(x) == ~(x.t = "number" /\ x.v = 0) /\ x.t # "nan"

\* Math.random() returns a double of [0, 1): the model holds it in units of
\* 1 / RandomUnit. The unit is a power of two: each value m / RandomUnit is a
\* double, and so is, without rounding, every number the code forms from it
\* (value * 25, value * (i + 1), value - 0.5, freq + value * 5), so that the
\* integers of the model compare as the doubles of the code do. The values a
\* step reads are an input of the step, an array read from its start and
\* around again.
RandomUnit == 128

\* The n-th value Math.random returns (n from 1)
RandomAt(random, n) == random[((n - 1) % Len(random)) + 1]

\* The compare functions of the program
\* (a, b) => a - b on numbers
NumOrder == [fn |-> "a - b"]
\* (a, b) => b.freq - a.freq
FreqOrder == [fn |-> "b.freq - a.freq"]
\* (a, b) => b.weight - a.weight
WeightOrder == [fn |-> "b.weight - a.weight"]
\* () => Math.random() - 0.5, Math.random returning the values `random` of
\* which n have been read
RandomOrder(random, n) == [fn |-> "Math.random() - 0.5", random |-> random, read |-> n]

\* b - a on two numbers: NaN when either is NaN, which a sort takes as 0
Minus(b, a) == IF a.t = "nan" \/ b.t = "nan" THEN 0 ELSE b.v - a.v

\* What the n-th call of comparefn returns for (a, b), doubled for
\* Math.random() - 0.5 to stay an integer
Order(comparefn, a, b, n) ==
    CASE comparefn.fn = "a - b" -> Minus(a, b)
      [] comparefn.fn = "b.freq - a.freq" -> Minus(b.freq, a.freq)
      [] comparefn.fn = "b.weight - a.weight" -> Minus(b.weight, a.weight)
      [] comparefn.fn = "Math.random() - 0.5" ->
            2 * RandomAt(comparefn.random, comparefn.read + n) - RandomUnit

\* Array.prototype.sort(comparefn) as node runs it on an array shorter than
\* 64: the leading run is counted and made ascending, then each later element
\* is put into the sorted part by binary insertion. Only whether the result of
\* comparefn is negative is looked at.

\* The length of the leading run: the elements go on in the direction of the
\* first two, strictly when that is descending. `run` elements are in the run
\* and comparefn has been called `asked` times.
RECURSIVE CountRun(_, _, _, _, _)
CountRun(comparefn, arr, descending, run, asked) ==
    IF run = Len(arr) THEN [run |-> run, calls |-> asked]
    ELSE IF descending = (Order(comparefn, arr[run + 1], arr[run], asked + 1) < 0)
    THEN CountRun(comparefn, arr, descending, run + 1, asked + 1)
    ELSE [run |-> run, calls |-> asked + 1]

\* The binary search for the place of pivot among the first `right` elements
\* of arr: the number of elements that stay before it.
RECURSIVE InsertPos(_, _, _, _, _, _)
InsertPos(comparefn, arr, pivot, left, right, asked) ==
    IF left >= right THEN [at |-> left, calls |-> asked]
    ELSE LET mid == left + ((right - left) \div 2)
         IN IF Order(comparefn, pivot, arr[mid + 1], asked + 1) < 0
            THEN InsertPos(comparefn, arr, pivot, left, mid, asked + 1)
            ELSE InsertPos(comparefn, arr, pivot, mid + 1, right, asked + 1)

\* The elements from position `start` on are inserted in turn.
RECURSIVE BinaryInsertion(_, _, _, _)
BinaryInsertion(comparefn, arr, start, asked) ==
    IF start > Len(arr) THEN [arr |-> arr, calls |-> asked]
    ELSE LET pos == InsertPos(comparefn, arr, arr[start], 0, start - 1, asked)
         IN BinaryInsertion(comparefn,
                            SubSeq(arr, 1, pos.at) \o <<arr[start]>>
                                \o SubSeq(arr, pos.at + 1, start - 1)
                                \o SubSeq(arr, start + 1, Len(arr)),
                            start + 1, pos.calls)

\* The sorted array, and the number of calls of comparefn made
ArraySort(comparefn, arr) ==
    IF Len(arr) < 2 THEN [arr |-> arr, calls |-> 0]
    ELSE LET descending == Order(comparefn, arr[2], arr[1], 1) < 0
             counted == CountRun(comparefn, arr, descending, 2, 1)
             made == IF descending
                     THEN [j \in 1..counted.run |-> arr[counted.run + 1 - j]]
                          \o SubSeq(arr, counted.run + 1, Len(arr))
                     ELSE arr
         IN BinaryInsertion(comparefn, made, counted.run + 1, counted.calls)

\* arr.sort((a, b) => a - b) on an array of numbers: ascending, equal numbers
\* keeping their order; a NaN is not moved past, so that an array holding one
\* need not come out in order.
SortNums(arr) == ArraySort(NumOrder, arr).arr

---------------------------------------------------------------------------
(* Program constants *)

\* getTodayBrazil(): the model runs within one calendar day, day 1. Every bet
\* then carries the same date, so ORDER BY date ASC leaves the order of the
\* pending rows free: the model covers every order the store can give them.
today == 1

\* PRICING.betCost = 3.50
betCost == 350

\* PRIZE_VALUES of the manual-entry revision, keys 0..15
PRIZE_VALUES ==
    [m \in 0..15 |->
        CASE m = 15 -> 85000000
          [] m = 14 -> 140000
          [] m = 13 -> 3500
          [] m = 12 -> 1400
          [] m = 11 -> 700
          [] OTHER -> 0]

---------------------------------------------------------------------------
(* Inputs drawn in the model *)

\* The values of a step in which Math.random is not called
NoDraws == <<>>

\* For generateRandomBet: values under which it draws 1, 1, 2, ..., 15, and
\* values under which it draws 25 down to 11
RandomBetDraws ==
    {<<0>> \o [j \in 1..15 |-> (RandomUnit * (j - 1) + 24) \div 25],
     [j \in 1..15 |-> (RandomUnit * (25 - j) + 24) \div 25]}

\* For generateModerateBet: values under which it draws its range in order
ModerateBetDraws == {[j \in 1..15 |-> (RandomUnit * (j - 1) + 14) \div 15]}

\* For generateWeightedBet: the greatest value for fifteen of the keys 1..25 of the
\* frequency object and 0 for the others
WeightedBetDraws ==
    {[k \in 1..25 |-> IF k \in {3, 4, 5, 6, 7, 9, 10, 13, 14, 16, 17, 18, 19, 20, 22}
                      THEN RandomUnit - 1 ELSE 0]}

\* For generateDistributedBet: the comparator gives a negative number at its
\* calls 1, 3 and 7, which fall to the first group, and a positive one at its
\* other calls
DistributedBetDraws == {<<10, 90, 10, 90, 90, 90, 10, 90>> \o [j \in 1..16 |-> 90]}

\* Drawn numbers: 1..14 and 16 (14 and 5 matches with the two bets above),
\* and 11..25 (5 and 15 matches).
Draw1 == Range(1, 14) \o <<16>>
Draw2 == Range(11, 25)

\* The day before today, as a request body may give it for its date
yesterday == today - 1

\* Request bodies of POST /api/insert-result: contestNumber, numbers and an
\* optional date. The second gives a date; the third holds the number 26;
\* the last three are the ones the route rejects.
ManualBodies ==
    {[contestNumber |-> JsNum(3001), numbers |-> AsNums(<<16>> \o Range(1, 14)), date |-> Null],
     [contestNumber |-> JsNum(3002), numbers |-> AsNums(Draw2), date |-> Some(yesterday)],
     [contestNumber |-> JsNum(3002), numbers |-> AsNums(Range(1, 14) \o <<26>>), date |-> Null]}
    \cup {[contestNumber |-> JsNum(0), numbers |-> AsNums(Draw1), date |-> Null],
          [contestNumber |-> JsNum(3001), numbers |-> AsNums(Range(1, 14)), date |-> Null],
          [contestNumber |-> JsNum(3001), numbers |-> AsNums(Range(1, 14) \o <<14>>),
           date |-> Null]}

---------------------------------------------------------------------------
(* The store *)

\* INSERT INTO bets (strategy, numbers, date, type): the other columns take
\* their defaults (result_numbers, matches, contest_number NULL; prize 0).
NewBet(strategy, numbers, date, type) ==
    [strategy |-> strategy, numbers |-> numbers, date |-> date, type |-> type,
     result_numbers |-> Null, matches |-> Null, prize |-> 0, contest_number |-> Null]

\* PendingIds without the WHERE clause: every row of bets
PendingIdsAllRows(bs) == DOMAIN bs

\* SELECT * FROM bets WHERE result_numbers IS NULL
PendingIds(bs) == {id \in DOMAIN bs : IsNull(bs[id].result_numbers)}

\* ... ORDER BY date ASC: every order of the pending rows with dates ascending
\* (rows of the same date come in any order).
PendingOrdered(bs) ==
    LET ids == PendingIds(bs)
        n == Cardinality(ids)
    IN {s \in [1..n -> ids] :
            /\ \A j, k \in 1..n : j # k => s[j] # s[k]
            /\ \A j, k \in 1..n : j < k => bs[s[j]].date <= bs[s[k]].date}

\* SELECT * FROM bets WHERE result_numbers IS NULL (no ORDER BY): any order.
PendingUnordered(bs) ==
    LET ids == PendingIds(bs)
        n == Cardinality(ids)
    IN {s \in [1..n -> ids] : \A j, k \in 1..n : j # k => s[j] # s[k]}

\* SELECT id FROM results WHERE contest_number = $1
ExistingRows(rs, contestNumber) == {r \in rs : r.contest_number = PgInt(contestNumber)}

\* bet.numbers.filter(num => resultData.numbers.includes(num)).length
\* (bet.numbers comes from the store: JS numbers)
Matches(betNumbers, resultNumbers) ==
    Cardinality({j \in DOMAIN betNumbers : Includes(resultNumbers, JsNum(betNumbers[j]))})

\* resultData.prizes[matches] || 0
PrizeFor(prizes, matches) == IF matches \in DOMAIN prizes THEN prizes[matches] ELSE 0

\* UpdateBet without the contest number: contest_number stays NULL.
UpdateBetWithoutContest(bs, id, resultData, matches, prize) ==
    [bs EXCEPT ![id] = [@ EXCEPT !.result_numbers = Some(PgIntArray(resultData.numbers)),
                                 !.matches = Some(matches),
                                 !.prize = prize]]

\* UPDATE bets SET result_numbers = $1, matches = $2, prize = $3,
\*   contest_number = $4 WHERE id = $5
UpdateBet(bs, id, resultData, matches, prize) ==
    [bs EXCEPT ![id] = [@ EXCEPT !.result_numbers = Some(PgIntArray(resultData.numbers)),
                                 !.matches = Some(matches),
                                 !.prize = prize,
                                 !.contest_number = Some(PgInt(resultData.contestNumber))]]

---------------------------------------------------------------------------
(* Handler slots *)

NoResult == [none |-> TRUE]
NoRet == [none |-> TRUE]
NoResp == [none |-> TRUE]

IdleCall ==
    [entry |-> "none", pc |-> "idle", resultData |-> NoResult, pending |-> <<>>, i |-> 0,
     totalPrize |-> 0, totalCost |-> 0, checkedCount |-> 0, ret |-> NoRet, resp |-> NoResp]

\* History of the current call:
\*   wrote         ids of the bets rows it has updated
\*   wroteResults  number of INSERT/UPDATE it has applied to results
\*   queried       its existence query has been answered
\*   rowAtCheck    ... and the answer held the contest's row
\*   loaded        Null, or the ids its pending query returned
\*   rejected      its INSERT into results was rejected by the UNIQUE constraint
\*   overlapped    another call was in flight at some time during this one
\*                 (a call is in flight from the start of its handler, its
\*                 fetch included)
\*   repeat        when it had its contest number, an earlier call for the
\*                 same contest number had returned success
\*   betsAtLoad    the number of bets rows when its pending query was
\*                 answered (0: not answered)
\*   contest       the contest number it was called with (0: no call)
\*   bothNonSuccess  (src/server.js) both sources answered its fetch with a
\*                 non-success status
NoHist ==
    [wrote |-> {}, wroteResults |-> 0, queried |-> FALSE, rowAtCheck |-> FALSE,
     loaded |-> Null, rejected |-> FALSE, overlapped |-> FALSE, repeat |-> FALSE,
     betsAtLoad |-> 0, contest |-> 0, bothNonSuccess |-> FALSE]

Running(c) == c.pc \notin {"idle", "done"}

\* A new request or cron run takes the first slot that holds no running handler.
FreeSlot(p) ==
    /\ ~Running(calls[p])
    /\ \A q \in Procs : ~Running(calls[q]) => (p = "p1" \/ q # "p1")

\* The locals of a call that has returned are gone; its outcome stays.
Returned(c, ret, resp) ==
    [c EXCEPT !.pc = "done", !.resultData = NoResult, !.pending = <<>>, !.i = 0,
              !.totalPrize = 0, !.totalCost = 0, !.checkedCount = 0,
              !.ret = ret, !.resp = resp]

\* What a call starting in slot p does to the history: its own starts empty,
\* and it overlaps every call in flight.
StartHist(p, contestNumber) ==
    [q \in Procs |->
        IF q = p THEN [NoHist EXCEPT !.overlapped = \E r \in Procs \ {p} : Running(calls[r]),
                                     !.repeat = PgInt(contestNumber) \in okContests,
                                     !.contest = PgInt(contestNumber)]
        ELSE IF Running(calls[q]) THEN [hist[q] EXCEPT !.overlapped = TRUE]
        ELSE hist[q]]

\* The contest numbers with a successful return, once the call c returns ret.
OkAfter(c, ret) ==
    IF ret.success THEN okContests \cup {PgInt(c.resultData.contestNumber)} ELSE okContests

\* The outcomes of checkBetsWithResult
AlreadyProcessed == [success |-> TRUE, checked |-> 0, totalPrize |-> 0, message |-> "Ja conferido"]
NoPending == [success |-> TRUE, checked |-> 0, totalPrize |-> 0, message |-> "Sem apostas pendentes"]
Failure(msg) == [success |-> FALSE, error |-> msg]

---------------------------------------------------------------------------
(* Manual-entry revision: POST /api/insert-result and checkBetsWithResult *)

\* The route's response to the outcome of checkBetsWithResult
ManualResponse(ret) ==
    IF ret.success
    THEN [status |-> 200, success |-> TRUE, checked |-> ret.checked, totalPrize |-> ret.totalPrize]
    ELSE [status |-> 500, success |-> FALSE]

\* POST /api/insert-result up to the first await of checkBetsWithResult:
\* the payload is validated, resultData built, and the existence query issued.
\* The date of the body, a date string where it is held, is taken, and
\* today's where the body holds none (line 1268).
ManualInsertResult(p, body) ==
    /\ FreeSlot(p)
    /\ ncalls < MaxCalls
    /\ IF ~Truthy(body.contestNumber) \/ Len(body.numbers) # 15
       THEN /\ calls' = [calls EXCEPT ![p] =
                   [IdleCall EXCEPT !.entry = "insert-result", !.pc = "done",
                                    !.resp = [status |-> 400, success |-> FALSE]]]
            /\ hist' = [hist EXCEPT ![p] = NoHist]
            /\ UNCHANGED ncalls
       ELSE IF SetSize(body.numbers) # 15
       THEN /\ calls' = [calls EXCEPT ![p] =
                   [IdleCall EXCEPT !.entry = "insert-result", !.pc = "done",
                                    !.resp = [status |-> 400, success |-> FALSE]]]
            /\ hist' = [hist EXCEPT ![p] = NoHist]
            /\ UNCHANGED ncalls
       ELSE /\ calls' = [calls EXCEPT ![p] =
                   [IdleCall EXCEPT
                       !.entry = "insert-result",
                       !.pc = "exist",
                       !.resultData =
                           [contestNumber |-> ParseInt(body.contestNumber),
                            numbers |-> SortNums([j \in DOMAIN body.numbers |-> ParseInt(body.numbers[j])]),
                            date |-> IF IsNull(body.date) THEN today ELSE Val(body.date),
                            prizes |-> PRIZE_VALUES,
                            source |-> "manual"]]]
            /\ hist' = StartHist(p, ParseInt(body.contestNumber))
            /\ ncalls' = ncalls + 1
    /\ UNCHANGED <<fetch, gen, nruns, bets, results, nfail, okContests, ensure>>

\* A store query of the call in slot p throws: the catch block returns
\* {success: false, error} and the route answers 500.
ManualStoreError(p) ==
    /\ calls[p].pc \in {"exist", "pending", "update", "insert"}
    /\ nfail < MaxFailures
    /\ nfail' = nfail + 1
    /\ calls' = [calls EXCEPT ![p] =
            Returned(@, Failure("store error"), ManualResponse(Failure("store error")))]
    /\ UNCHANGED <<fetch, gen, nruns, bets, results, hist, ncalls, okContests, ensure>>

\* ManualExisting without the early return: the call goes on to the pending
\* query whether or not the contest is stored.
ManualExistingNoReturn(p) ==
    /\ calls[p].pc = "exist"
    /\ LET existing == ExistingRows(results, calls[p].resultData.contestNumber)
       IN /\ hist' = [hist EXCEPT ![p].queried = TRUE, ![p].rowAtCheck = existing # {}]
          /\ calls' = [calls EXCEPT ![p] = [@ EXCEPT !.pc = "pending"]]
    /\ UNCHANGED <<fetch, gen, nruns, bets, results, ncalls, nfail, okContests, ensure>>

\* SELECT id FROM results WHERE contest_number = $1, then the early return
\* when the contest is stored already (lines 1049-1058).
ManualExisting(p) ==
    /\ calls[p].pc = "exist"
    /\ LET existing == ExistingRows(results, calls[p].resultData.contestNumber)
       IN /\ hist' = [hist EXCEPT ![p].queried = TRUE, ![p].rowAtCheck = existing # {}]
          /\ calls' = [calls EXCEPT ![p] =
                  IF Cardinality(existing) > 0
                  THEN Returned(@, AlreadyProcessed, ManualResponse(AlreadyProcessed))
                  ELSE [@ EXCEPT !.pc = "pending"]]
          /\ okContests' = IF Cardinality(existing) > 0
                           THEN OkAfter(calls[p], AlreadyProcessed) ELSE okContests
    /\ UNCHANGED <<fetch, gen, nruns, bets, results, ncalls, nfail, ensure>>

\* SELECT * FROM bets WHERE result_numbers IS NULL ORDER BY date ASC, then the
\* early return when nothing is pending (lines 1060-1077).
ManualPending(p) ==
    /\ calls[p].pc = "pending"
    /\ \E rows \in PendingOrdered(bets) :
          /\ hist' = [hist EXCEPT ![p].loaded = Some(PendingIds(bets)),
                                   ![p].betsAtLoad = Len(bets)]
          /\ calls' = [calls EXCEPT ![p] =
                  IF Len(rows) = 0
                  THEN Returned(@, NoPending, ManualResponse(NoPending))
                  ELSE [@ EXCEPT !.pc = "update", !.pending = rows, !.i = 1,
                                 !.totalPrize = 0, !.totalCost = 0, !.checkedCount = 0]]
          /\ okContests' = IF Len(rows) = 0 THEN OkAfter(calls[p], NoPending) ELSE okContests
    /\ UNCHANGED <<fetch, gen, nruns, bets, results, ncalls, nfail, ensure>>

\* ManualUpdateBet taking in the bets inserted since the pending list was
\* loaded: they are settled and counted along with pending row i.
ManualUpdateBetTakesNewBets(p) ==
    /\ calls[p].pc = "update"
    /\ LET c == calls[p]
           ids == {c.pending[c.i]} \cup (PendingIds(bets) \ Elems(c.pending))
           matches(id) == Matches(bets[id].numbers, c.resultData.numbers)
           prize(id) == PrizeFor(c.resultData.prizes, matches(id))
       IN /\ bets' = [id \in DOMAIN bets |->
                        IF id \in ids
                        THEN UpdateBet(bets, id, c.resultData, matches(id), prize(id))[id]
                        ELSE bets[id]]
          /\ hist' = [hist EXCEPT ![p].wrote = @ \cup ids]
          /\ calls' = [calls EXCEPT ![p] =
                  [@ EXCEPT !.totalPrize = @ + prize(c.pending[c.i]),
                            !.totalCost = @ + betCost * Cardinality(ids),
                            !.checkedCount = @ + Cardinality(ids),
                            !.i = @ + 1,
                            !.pc = IF c.i = Len(c.pending) THEN "insert" ELSE "update"]]
    /\ UNCHANGED <<fetch, gen, nruns, results, ncalls, nfail, okContests, ensure>>

\* One pass of the settlement loop (lines 1079-1099): matches and prize of
\* pending row i, the running totals, and the awaited UPDATE of the bet.
ManualUpdateBet(p) ==
    /\ calls[p].pc = "update"
    /\ LET c == calls[p]
           id == c.pending[c.i]
           matches == Matches(bets[id].numbers, c.resultData.numbers)
           prize == PrizeFor(c.resultData.prizes, matches)
       IN /\ bets' = UpdateBet(bets, id, c.resultData, matches, prize)
          /\ hist' = [hist EXCEPT ![p].wrote = @ \cup {id}]
          /\ calls' = [calls EXCEPT ![p] =
                  [@ EXCEPT !.totalPrize = @ + prize,
                            !.totalCost = @ + betCost,
                            !.checkedCount = @ + 1,
                            !.i = @ + 1,
                            !.pc = IF c.i = Len(c.pending) THEN "insert" ELSE "update"]]
    /\ UNCHANGED <<fetch, gen, nruns, results, ncalls, nfail, okContests, ensure>>

\* ManualResultRow with the cost of one bet as total_cost, whatever the
\* number of bets checked.
ManualResultRowOneCost(c) ==
    [contest_number |-> PgInt(c.resultData.contestNumber),
     numbers |-> PgIntArray(c.resultData.numbers),
     date |-> c.resultData.date,
     prize_11 |-> c.resultData.prizes[11], prize_12 |-> c.resultData.prizes[12],
     prize_13 |-> c.resultData.prizes[13], prize_14 |-> c.resultData.prizes[14],
     prize_15 |-> c.resultData.prizes[15],
     source |-> c.resultData.source,
     total_prize |-> c.totalPrize,
     total_cost |-> betCost,
     balance |-> c.totalPrize - betCost,
     bets_checked |-> c.checkedCount]

\* The row INSERT INTO results writes (lines 1104-1125)
ManualResultRow(c) ==
    [contest_number |-> PgInt(c.resultData.contestNumber),
     numbers |-> PgIntArray(c.resultData.numbers),
     date |-> c.resultData.date,
     prize_11 |-> c.resultData.prizes[11], prize_12 |-> c.resultData.prizes[12],
     prize_13 |-> c.resultData.prizes[13], prize_14 |-> c.resultData.prizes[14],
     prize_15 |-> c.resultData.prizes[15],
     source |-> c.resultData.source,
     total_prize |-> c.totalPrize,
     total_cost |-> c.totalCost,
     balance |-> c.totalPrize - c.totalCost,
     bets_checked |-> c.checkedCount]

\* The outcome of a completed pass (line 1137)
ManualSuccess(c) ==
    [success |-> TRUE, checked |-> c.checkedCount, totalPrize |-> c.totalPrize,
     balance |-> c.totalPrize - c.totalCost]

\* INSERT INTO results after the loop (lines 1101-1142): rejected by the
\* UNIQUE constraint on contest_number when the contest is stored by now,
\* which the catch block turns into {success: false}.
ManualInsertRow(p) ==
    /\ calls[p].pc = "insert"
    /\ LET c == calls[p]
       IN IF ExistingRows(results, c.resultData.contestNumber) # {}
          THEN /\ calls' = [calls EXCEPT ![p] =
                       Returned(@, Failure("duplicate key"), ManualResponse(Failure("duplicate key")))]
               /\ hist' = [hist EXCEPT ![p].rejected = TRUE]
               /\ UNCHANGED <<results, okContests>>
          ELSE /\ results' = results \cup {ManualResultRow(c)}
               /\ hist' = [hist EXCEPT ![p].wroteResults = @ + 1]
               /\ calls' = [calls EXCEPT ![p] =
                       Returned(@, ManualSuccess(c), ManualResponse(ManualSuccess(c)))]
               /\ okContests' = OkAfter(c, ManualSuccess(c))
    /\ UNCHANGED <<fetch, gen, nruns, bets, ncalls, nfail, ensure>>


---------------------------------------------------------------------------
(* Multi-source revision: the source adapters and fetchLatestResult *)

\* What a fetch() of a source gives: it throws (network error, timeout),
\* answers with a non-success status, answers with a body that cannot be read
\* (response.json() throws), or answers with a payload.
NetError == [kind |-> "error"]
NetStatus == [kind |-> "status"]
NetUnparseable == [kind |-> "unparseable"]

\* How a block of code ends: it returns a value or it throws.
Return(v) == [thrown |-> FALSE, value |-> v]
Throw == [thrown |-> TRUE, value |-> Null]

\* try { ... } catch (error) { return onError; }
Catch(o, onError) == IF o.thrown THEN Return(onError) ELSE o

\* The Google page as the adapter reads it: the two-digit numerals standing
\* alone in the page, in page order, and the four digits contestRegex captures
\* after "concurso", if any.
GooglePage(tokens, contest) == [kind |-> "ok", tokens |-> AsStrs(tokens), contest |-> contest]

\* A numberRegex matching every two-digit numeral
NumberRegexAnyNumeral(x) == x.v \in 0..99

\* numberRegex (line 269) matches the numerals 01..25
NumberRegex(x) == x.v \in 1..25

DefaultPrizesGoogle ==
    [m \in 11..15 |->
        CASE m = 11 -> 600 [] m = 12 -> 1200 [] m = 13 -> 3000 [] m = 14 -> 150000
          [] OTHER -> 100000000]

DefaultPrizesLoterias ==
    [m \in 11..15 |->
        CASE m = 11 -> 600 [] m = 12 -> 1200 [] m = 13 -> 3000 [] m = 14 -> 150000
          [] OTHER -> 150000000]

FirstN(arr, n) == [j \in 1..n |-> arr[j]]

\* tryFetchFromGoogle (lines 249-298): the value Null is `return null`.
TryFetchFromGoogle(response, day) ==
    Catch(
        IF response.kind \in {"error", "unparseable"} THEN Throw
        ELSE IF response.kind = "status" THEN Return(Null)
        ELSE LET matches == SelectSeq(response.tokens, NumberRegex)
             IN IF Len(matches) >= 15
                THEN LET first == [j \in 1..15 |-> ParseInt(FirstN(matches, 15)[j])]
                     IN IF SetSize(first) = 15
                        THEN LET contestNumber ==
                                     IF IsNull(response.contest) THEN Null
                                     ELSE Some(ParseInt(Val(response.contest)))
                             IN Return(Some([contestNumber |->
                                                 IF ~IsNull(contestNumber) /\ Truthy(Val(contestNumber))
                                                 THEN Val(contestNumber) ELSE JsNum(9999),
                                             numbers |-> SortNums(first),
                                             date |-> day,
                                             prizes |-> DefaultPrizesGoogle,
                                             source |-> "google"]))
                        ELSE Return(Null)
                ELSE Return(Null),
        Null)

\* CaixaPrizes with the tiers the other way round: faixa 1 is 11 matches,
\* faixa 5 is 15.
CaixaPrizesAscending(prizes, items) ==
    [m \in DOMAIN prizes |->
        IF \E j \in DOMAIN items : items[j].faixa = m - 10
        THEN items[CHOOSE j \in DOMAIN items : items[j].faixa = m - 10].valorPremio
        ELSE prizes[m]]

\* The prizes tryFetchFromCaixa reads off listaRateioPremio (lines 321-329):
\* the items are applied in order, a later item of the same faixa overwriting.
RECURSIVE CaixaPrizes(_, _)
CaixaPrizes(prizes, items) ==
    IF Len(items) = 0 THEN prizes
    ELSE LET item == Head(items)
             tier == CASE item.faixa = 1 -> 15 [] item.faixa = 2 -> 14 [] item.faixa = 3 -> 13
                       [] item.faixa = 4 -> 12 [] item.faixa = 5 -> 11 [] OTHER -> 0
         IN CaixaPrizes(IF tier = 0 THEN prizes ELSE [prizes EXCEPT ![tier] = item.valorPremio],
                        Tail(items))

\* tryFetchFromCaixa (lines 300-343). A property the payload does not hold is
\* Null: parseInt of it is NaN, and .map on it throws a TypeError.
TryFetchFromCaixa(response) ==
    Catch(
        IF response.kind \in {"error", "unparseable"} THEN Throw
        ELSE IF response.kind = "status" THEN Return(Null)
        ELSE LET data == response.data
             IN IF IsNull(data.dezenasSorteadasOrdemSorteio) THEN Throw
                ELSE LET dezenas == Val(data.dezenasSorteadasOrdemSorteio)
                     IN Return(Some(
                            [contestNumber |-> ParseIntOpt(data.numero),
                             numbers |-> [j \in DOMAIN dezenas |-> ParseInt(dezenas[j])],
                             date |-> data.dataApuracao,
                             prizes |-> IF ~IsNull(data.listaRateioPremio)
                                           /\ IsArray(Val(data.listaRateioPremio))
                                        THEN CaixaPrizes([m \in 11..15 |-> 0],
                                                         Val(data.listaRateioPremio).items)
                                        ELSE [m \in 11..15 |-> 0],
                             source |-> "api_caixa"])),
        Null)

\* tryFetchFromLoteriasAPI (lines 345-375)
TryFetchFromLoteriasAPI(response) ==
    Catch(
        IF response.kind \in {"error", "unparseable"} THEN Throw
        ELSE IF response.kind = "status" THEN Return(Null)
        ELSE LET data == response.data
             IN IF IsNull(data.dezenas) THEN Throw
                ELSE LET dezenas == Val(data.dezenas)
                     IN Return(Some(
                            [contestNumber |-> ParseIntOpt(data.concurso),
                             numbers |-> [j \in DOMAIN dezenas |-> ParseInt(dezenas[j])],
                             date |-> data.data,
                             prizes |-> DefaultPrizesLoterias,
                             source |-> "loterias_api"])),
        Null)

\* fetchLatestResult (lines 377-407): the sources in order, the first result
\* wins; what a source throws is not caught here.
FetchLatestResult(net, day) ==
    LET google == TryFetchFromGoogle(net[1], day)
    IN IF google.thrown \/ ~IsNull(google.value) THEN google
       ELSE LET caixa == TryFetchFromCaixa(net[2])
            IN IF caixa.thrown \/ ~IsNull(caixa.value) THEN caixa
               ELSE TryFetchFromLoteriasAPI(net[3])

\* Payloads of the two JSON sources. listaRateioPremio is Null when the
\* payload does not hold it.
CaixaPayloadWith(numero, dezenas, lista) ==
    [kind |-> "ok",
     data |-> [numero |-> numero,
               dezenasSorteadasOrdemSorteio |-> dezenas,
               dataApuracao |-> 1,
               listaRateioPremio |-> lista]]

CaixaPayload(numero, dezenas) ==
    CaixaPayloadWith(numero, dezenas,
                     Some(JsArray(<<[faixa |-> 1, valorPremio |-> 120000000],
                                    [faixa |-> 2, valorPremio |-> 150000]>>)))

\* A payout list with all five tiers and a sixth faixa the adapter does not
\* know, in no particular order
FullRateio ==
    <<[faixa |-> 3, valorPremio |-> 3000], [faixa |-> 1, valorPremio |-> 120000000],
      [faixa |-> 6, valorPremio |-> 100], [faixa |-> 5, valorPremio |-> 600],
      [faixa |-> 2, valorPremio |-> 150000], [faixa |-> 4, valorPremio |-> 1200]>>

LoteriasPayload(concurso, dezenas) ==
    [kind |-> "ok", data |-> [concurso |-> concurso, dezenas |-> dezenas, data |-> 1]]

\* The answers of the three sources drawn for the reconcile calls.
GoogleResponses ==
    {NetError, NetStatus, GooglePage(Draw1, Some(JsStr(3001))), GooglePage(Range(1, 14), Null)}

CaixaResponses ==
    {NetStatus, CaixaPayload(Some(JsNum(3001)), Some(AsStrs(<<16>> \o Range(1, 14))))}

LoteriasResponses ==
    {NetError, LoteriasPayload(Some(JsNum(3002)), Some(AsStrs(Draw2)))}

NetResponses == {<<g, c, l>> : g \in GoogleResponses, c \in CaixaResponses, l \in LoteriasResponses}

\* What fetchLatestResult returns over the answers above.
FetchOutcomes == {FetchLatestResult(net, today).value : net \in NetResponses}

---------------------------------------------------------------------------
(* Multi-source revision: GET /api/test-fetch running fetchLatestResult *)

\* The sources array with Caixa before Google
SourcesCaixaFirst == <<"caixa", "google", "loterias">>

\* The sources array with Google a second time: a source that gave no result
\* is tried again
SourcesGoogleTwice == <<"google", "google", "caixa", "loterias">>

\* The sources array of fetchLatestResult (lines 384-388)
Sources == <<"google", "caixa", "loterias">>

\* sourceFn() for the source of that name, given what its fetch() answers
CallSource(name, response) ==
    CASE name = "google" -> TryFetchFromGoogle(response, today)
      [] name = "caixa" -> TryFetchFromCaixa(response)
      [] OTHER -> TryFetchFromLoteriasAPI(response)

\* What the source of that name answers, net being the answers of Google,
\* Caixa and Loterias in this order
AnswerOf(net, name) ==
    CASE name = "google" -> net[1] [] name = "caixa" -> net[2] [] OTHER -> net[3]

\* The answers of the three sources drawn for GET /api/test-fetch: besides
\* outages and complete payloads, pages and payloads with 14 numbers, with a
\* repeated number, with the number 26, without a contest number, with a
\* contest number that is no numeral, and without the numbers.
FetchGoogleResponses ==
    {NetError, NetStatus,
     GooglePage(Draw1, Some(JsStr(3001))),
     GooglePage(Draw1, Null),
     GooglePage(Range(1, 14), Some(JsStr(3001))),
     GooglePage(Range(1, 14) \o <<14, 15>>, Some(JsStr(3001))),
     GooglePage(Range(1, 14) \o <<26, 16>>, Some(JsStr(3001)))}

FetchCaixaResponses ==
    {NetError, NetStatus, NetUnparseable,
     CaixaPayload(Some(JsNum(3001)), Some(AsStrs(<<16>> \o Range(1, 14)))),
     CaixaPayload(Some(JsNum(3001)), Some(AsStrs(Range(1, 14)))),
     CaixaPayload(Some(JsNum(3001)), Some(AsStrs(Range(1, 14) \o <<14>>))),
     CaixaPayload(Some(JsNum(3001)), Some(AsStrs(Range(1, 14) \o <<26>>))),
     CaixaPayload(Null, Some(AsStrs(Draw1))),
     CaixaPayload(Some(JsNum(3001)), Null),
     CaixaPayloadWith(Some(JsNum(3001)), Some(AsStrs(Draw1)), Null),
     CaixaPayloadWith(Some(JsNum(3001)), Some(AsStrs(Draw1)), Some(JsText)),
     CaixaPayloadWith(Some(JsNum(3001)), Some(AsStrs(Draw1)), Some(JsArray(FullRateio)))}

FetchLoteriasResponses ==
    {NetError, NetStatus, NetUnparseable,
     LoteriasPayload(Some(JsNum(3002)), Some(AsStrs(Draw2))),
     LoteriasPayload(Some(JsNum(3002)), Some(AsStrs(Range(12, 25)))),
     LoteriasPayload(Some(JsText), Some(AsStrs(Draw2))),
     LoteriasPayload(Some(JsNum(3002)), Null)}

FetchNetResponses ==
    {<<g, c, l>> : g \in FetchGoogleResponses, c \in FetchCaixaResponses,
                   l \in FetchLoteriasResponses}

\* The call: net is what the sources answer during it, i the position in
\* sources, invoked the sources called so far, returned what each of those
\* that have ended gave back,
\* result the return value, resp the route's response.
IdleFetch ==
    [pc |-> "idle", net |-> <<>>, i |-> 0, invoked |-> <<>>, returned |-> <<>>,
     result |-> Null, resp |-> NoResp]

\* GET /api/test-fetch (lines 613-615) calls fetchLatestResult.
TestFetch(net) ==
    /\ fetch.pc \in {"idle", "done"}
    /\ fetch' = [IdleFetch EXCEPT !.pc = "loop", !.net = net, !.i = 1]
    /\ UNCHANGED <<bets, results, calls, hist, ncalls, nfail, okContests, gen, nruns, ensure>>

\* One pass of the loop of fetchLatestResult (lines 390-391): the source is
\* called, and the call waits for what it gives back.
FetchInvoke ==
    /\ fetch.pc = "loop"
    /\ fetch' = [fetch EXCEPT !.pc = "await", !.invoked = Append(@, Sources[fetch.i])]
    /\ UNCHANGED <<bets, results, calls, hist, ncalls, nfail, okContests, gen, nruns, ensure>>

\* The awaited source has ended (lines 391-400): its result is returned, or
\* the loop goes on, and after the last source null is returned (line 406).
\* What the source throws ends the call.
FetchReturn ==
    /\ fetch.pc = "await"
    /\ LET name == Sources[fetch.i]
           o == CallSource(name, AnswerOf(fetch.net, name))
       IN fetch' =
              IF o.thrown
              THEN [fetch EXCEPT !.pc = "raised"]
              ELSE IF ~IsNull(o.value)
              THEN [fetch EXCEPT !.pc = "returned",
                                 !.returned = Append(@, o.value), !.result = o.value]
              ELSE [fetch EXCEPT !.pc = IF fetch.i = Len(Sources) THEN "returned" ELSE "loop",
                                 !.i = @ + 1,
                                 !.returned = Append(@, o.value)]
    /\ UNCHANGED <<bets, results, calls, hist, ncalls, nfail, okContests, gen, nruns, ensure>>

\* The route's response (lines 616-620)
TestFetchRespond ==
    /\ fetch.pc = "returned"
    /\ fetch' = [fetch EXCEPT !.pc = "done",
                              !.resp = IF ~IsNull(fetch.result)
                                       THEN [status |-> 200, success |-> TRUE]
                                       ELSE [status |-> 500, success |-> FALSE]]
    /\ UNCHANGED <<bets, results, calls, hist, ncalls, nfail, okContests, gen, nruns, ensure>>

---------------------------------------------------------------------------
(* Multi-source revision: checkPendingBets, the routes, checkBetsWithResult *)

\* A prizes object as a caller of POST /api/insert-result may send it: the
\* route takes req.body.prizes as it comes, here with an amount under key 5
\* besides the five tiers.
CallerPrizes ==
    [m \in {5} \cup 11..15 |->
        CASE m = 5 -> 500 [] m = 11 -> 600 [] m = 12 -> 1200 [] m = 13 -> 3000
          [] m = 14 -> 150000 [] OTHER -> 100000000]

\* Request bodies of POST /api/insert-result: contestNumber, numbers, an
\* optional date and an optional prizes object.
MultiBodies ==
    {[contestNumber |-> JsNum(3001), numbers |-> AsNums(Draw1), date |-> Null, prizes |-> Null],
     [contestNumber |-> JsNum(3002), numbers |-> AsNums(Draw2), date |-> Some(yesterday),
      prizes |-> Some(CallerPrizes)],
     [contestNumber |-> JsNum(0), numbers |-> AsNums(Draw1), date |-> Null, prizes |-> Null],
     [contestNumber |-> JsNum(3001), numbers |-> AsNums(Range(1, 14)), date |-> Null,
      prizes |-> Null]}

\* What the entry point answers once checkBetsWithResult (or a fetch without
\* result) has returned: the cron job answers nobody, force-check and
\* check-bets answer {success: true}, insert-result answers success with what
\* it finds in checkResult (lines 623-627, 650-657, 671-675, 716-719).
MultiResponse(entry, ret) ==
    CASE entry = "cron" -> NoResp
      [] entry = "insert-result" ->
            [status |-> 200, success |-> TRUE,
             checked |-> IF "checked" \in DOMAIN ret THEN Some(ret.checked) ELSE Null,
             totalPrize |-> IF "totalPrize" \in DOMAIN ret THEN Some(ret.totalPrize) ELSE Null]
      [] OTHER -> [status |-> 200, success |-> TRUE]

\* The hourly cron job, POST /api/force-check and POST /api/check-bets:
\* checkPendingBets (lines 513-518) is called and awaits fetchLatestResult.
\* Other handlers run while it awaits.
MultiCheckPendingBets(p, entry) ==
    /\ FreeSlot(p)
    /\ ncalls < MaxCalls
    /\ calls' = [calls EXCEPT ![p] = [IdleCall EXCEPT !.entry = entry, !.pc = "x_fetch"]]
    /\ hist' = [StartHist(p, JsNum(0)) EXCEPT ![p].repeat = FALSE]
    /\ ncalls' = ncalls + 1
    /\ UNCHANGED <<fetch, gen, nruns, bets, results, nfail, okContests, ensure>>

\* MultiFetched storing a row for a fetch that gave no result.
MultiFetchedRecordsMiss(p, result) ==
    /\ calls[p].pc = "x_fetch"
    /\ result \in FetchOutcomes
    /\    IF IsNull(result)
          THEN /\ calls' = [calls EXCEPT ![p] =
                       [@ EXCEPT !.pc = "done", !.resp = MultiResponse(calls[p].entry, NoRet)]]
               /\ results' = results \cup {[contest_number |-> 0, numbers |-> <<>>]}
               /\ UNCHANGED hist
          ELSE /\ calls' = [calls EXCEPT ![p] =
                       [@ EXCEPT !.pc = "x_exist", !.resultData = Val(result)]]
               /\ hist' = [hist EXCEPT
                              ![p].contest = PgInt(Val(result).contestNumber),
                              ![p].repeat = PgInt(Val(result).contestNumber) \in okContests]
               /\ UNCHANGED results
    /\ UNCHANGED <<fetch, gen, nruns, bets, ncalls, nfail, okContests, ensure>>

\* fetchLatestResult has returned to checkPendingBets (lines 513-518): without
\* a result the run ends; with one, checkBetsWithResult is called and issues
\* its first store query. The adapters touch no store, so the awaits inside
\* the fetch chain are one step here.
MultiFetched(p, result) ==
    /\ calls[p].pc = "x_fetch"
    /\ result \in FetchOutcomes
    /\    IF IsNull(result)
          THEN /\ calls' = [calls EXCEPT ![p] =
                       [@ EXCEPT !.pc = "done", !.resp = MultiResponse(calls[p].entry, NoRet)]]
               /\ UNCHANGED hist
          ELSE /\ calls' = [calls EXCEPT ![p] =
                       [@ EXCEPT !.pc = "x_exist", !.resultData = Val(result)]]
               /\ hist' = [hist EXCEPT
                              ![p].contest = PgInt(Val(result).contestNumber),
                              ![p].repeat = PgInt(Val(result).contestNumber) \in okContests]
    /\ UNCHANGED <<fetch, gen, nruns, bets, results, ncalls, nfail, okContests, ensure>>

\* POST /api/insert-result (lines 629-662) up to the first store query. The
\* date and the prizes of the body are taken where it holds them (lines
\* 645-646).
MultiInsertResult(p, body) ==
    /\ FreeSlot(p)
    /\ ncalls < MaxCalls
    /\ IF ~Truthy(body.contestNumber) \/ Len(body.numbers) # 15
       THEN /\ calls' = [calls EXCEPT ![p] =
                   [IdleCall EXCEPT !.entry = "insert-result", !.pc = "done",
                                    !.resp = [status |-> 400, success |-> FALSE]]]
            /\ hist' = [hist EXCEPT ![p] = NoHist]
            /\ UNCHANGED ncalls
       ELSE /\ calls' = [calls EXCEPT ![p] =
                   [IdleCall EXCEPT
                       !.entry = "insert-result",
                       !.pc = "x_exist",
                       !.resultData =
                           [contestNumber |-> ParseInt(body.contestNumber),
                            numbers |-> [j \in DOMAIN body.numbers |-> ParseInt(body.numbers[j])],
                            date |-> IF IsNull(body.date) THEN today ELSE Val(body.date),
                            prizes |-> IF IsNull(body.prizes) THEN DefaultPrizesGoogle
                                       ELSE Val(body.prizes),
                            source |-> "manual"]]]
            /\ hist' = StartHist(p, ParseInt(body.contestNumber))
            /\ ncalls' = ncalls + 1
    /\ UNCHANGED <<fetch, gen, nruns, bets, results, nfail, okContests, ensure>>

\* A store query of the call in slot p throws: the catch block (lines 505-510)
\* returns {success: false, error}.
MultiStoreError(p) ==
    /\ calls[p].pc \in {"x_exist", "x_insert", "x_pending", "x_update", "x_totals"}
    /\ nfail < MaxFailures
    /\ nfail' = nfail + 1
    /\ calls' = [calls EXCEPT ![p] =
            Returned(@, Failure("store error"), MultiResponse(@.entry, Failure("store error")))]
    /\ UNCHANGED <<fetch, gen, nruns, bets, results, hist, ncalls, okContests, ensure>>

\* SELECT id FROM results WHERE contest_number = $1 (lines 421-426, 446-448):
\* a stored contest is logged and the call goes on to the pending bets.
MultiExisting(p) ==
    /\ calls[p].pc = "x_exist"
    /\ LET existing == ExistingRows(results, calls[p].resultData.contestNumber)
       IN /\ hist' = [hist EXCEPT ![p].queried = TRUE, ![p].rowAtCheck = existing # {}]
          /\ calls' = [calls EXCEPT ![p] =
                  [@ EXCEPT !.pc = IF Cardinality(existing) = 0 THEN "x_insert" ELSE "x_pending"]]
    /\ UNCHANGED <<fetch, gen, nruns, bets, results, ncalls, nfail, okContests, ensure>>

\* The row INSERT INTO results writes (lines 428-444); total_prize and
\* bets_checked take their default 0.
MultiResultRow(c) ==
    [contest_number |-> PgInt(c.resultData.contestNumber),
     numbers |-> PgIntArray(c.resultData.numbers),
     date |-> c.resultData.date,
     prize_11 |-> c.resultData.prizes[11], prize_12 |-> c.resultData.prizes[12],
     prize_13 |-> c.resultData.prizes[13], prize_14 |-> c.resultData.prizes[14],
     prize_15 |-> c.resultData.prizes[15],
     source |-> c.resultData.source,
     total_prize |-> 0,
     bets_checked |-> 0]

\* MultiInsertRow against a results table without the UNIQUE constraint: the
\* row is inserted whether or not the contest is stored.
MultiInsertRowNoUnique(p) ==
    /\ calls[p].pc = "x_insert"
    /\ results' = results \cup {MultiResultRow(calls[p])}
    /\ hist' = [hist EXCEPT ![p].wroteResults = @ + 1]
    /\ calls' = [calls EXCEPT ![p] = [@ EXCEPT !.pc = "x_pending"]]
    /\ UNCHANGED <<fetch, gen, nruns, bets, ncalls, nfail, okContests, ensure>>

\* MultiInsertRow storing nothing: the call goes on to the pending bets
\* without the contest's row.
MultiInsertRowNotStored(p) ==
    /\ calls[p].pc = "x_insert"
    /\ calls' = [calls EXCEPT ![p] = [@ EXCEPT !.pc = "x_pending"]]
    /\ UNCHANGED <<fetch, gen, nruns, bets, results, hist, ncalls, nfail, okContests, ensure>>

\* INSERT INTO results for a contest the existence query did not find
\* (lines 426-445): rejected by the UNIQUE constraint when the contest has been
\* stored since, which the catch block turns into {success: false}.
MultiInsertRow(p) ==
    /\ calls[p].pc = "x_insert"
    /\ LET c == calls[p]
       IN IF ExistingRows(results, c.resultData.contestNumber) # {}
          THEN /\ calls' = [calls EXCEPT ![p] =
                       Returned(@, Failure("duplicate key"),
                                MultiResponse(c.entry, Failure("duplicate key")))]
               /\ hist' = [hist EXCEPT ![p].rejected = TRUE]
               /\ UNCHANGED results
          ELSE /\ results' = results \cup {MultiResultRow(c)}
               /\ hist' = [hist EXCEPT ![p].wroteResults = @ + 1]
               /\ calls' = [calls EXCEPT ![p] = [@ EXCEPT !.pc = "x_pending"]]
    /\ UNCHANGED <<fetch, gen, nruns, bets, ncalls, nfail, okContests, ensure>>

\* The outcome on an empty pending list (line 458)
MultiNoPending == [success |-> TRUE, checked |-> 0, totalPrize |-> 0]

\* SELECT * FROM bets WHERE result_numbers IS NULL ORDER BY date ASC, then the
\* early return when nothing is pending (lines 450-467).
MultiPending(p) ==
    /\ calls[p].pc = "x_pending"
    /\ \E rows \in PendingOrdered(bets) :
          /\ hist' = [hist EXCEPT ![p].loaded = Some(PendingIds(bets)),
                                   ![p].betsAtLoad = Len(bets)]
          /\ calls' = [calls EXCEPT ![p] =
                  IF Len(rows) = 0
                  THEN Returned(@, MultiNoPending, MultiResponse(@.entry, MultiNoPending))
                  ELSE [@ EXCEPT !.pc = "x_update", !.pending = rows, !.i = 1,
                                 !.totalPrize = 0, !.checkedCount = 0]]
          /\ okContests' = IF Len(rows) = 0 THEN OkAfter(calls[p], MultiNoPending) ELSE okContests
    /\ UNCHANGED <<fetch, gen, nruns, bets, results, ncalls, nfail, ensure>>

\* MultiUpdateBet leaving the loop after its first UPDATE: the call goes on
\* to the totals while the other pending bets are still to be written.
MultiUpdateBetLeavesEarly(p) ==
    /\ calls[p].pc = "x_update"
    /\ LET c == calls[p]
           id == c.pending[c.i]
           matches == Matches(bets[id].numbers, c.resultData.numbers)
           prize == PrizeFor(c.resultData.prizes, matches)
       IN /\ bets' = UpdateBet(bets, id, c.resultData, matches, prize)
          /\ hist' = [hist EXCEPT ![p].wrote = @ \cup {id}]
          /\ calls' = [calls EXCEPT ![p] =
                  [@ EXCEPT !.totalPrize = @ + prize,
                            !.checkedCount = @ + 1,
                            !.i = @ + 1,
                            !.pc = "x_totals"]]
    /\ UNCHANGED <<fetch, gen, nruns, results, ncalls, nfail, okContests, ensure>>

\* One pass of the settlement loop (lines 469-488).
MultiUpdateBet(p) ==
    /\ calls[p].pc = "x_update"
    /\ LET c == calls[p]
           id == c.pending[c.i]
           matches == Matches(bets[id].numbers, c.resultData.numbers)
           prize == PrizeFor(c.resultData.prizes, matches)
       IN /\ bets' = UpdateBet(bets, id, c.resultData, matches, prize)
          /\ hist' = [hist EXCEPT ![p].wrote = @ \cup {id}]
          /\ calls' = [calls EXCEPT ![p] =
                  [@ EXCEPT !.totalPrize = @ + prize,
                            !.checkedCount = @ + 1,
                            !.i = @ + 1,
                            !.pc = IF c.i = Len(c.pending) THEN "x_totals" ELSE "x_update"]]
    /\ UNCHANGED <<fetch, gen, nruns, results, ncalls, nfail, okContests, ensure>>

\* The outcome of a completed pass (line 504)
MultiSuccess(c) == [success |-> TRUE, checked |-> c.checkedCount, totalPrize |-> c.totalPrize]

\* UPDATE results SET total_prize = $1, bets_checked = $2 WHERE
\* contest_number = $3, and the return (lines 490-504).
MultiUpdateTotals(p) ==
    /\ calls[p].pc = "x_totals"
    /\ LET c == calls[p]
           n == PgInt(c.resultData.contestNumber)
       IN /\ results' = {IF r.contest_number = n
                         THEN [r EXCEPT !.total_prize = c.totalPrize, !.bets_checked = c.checkedCount]
                         ELSE r : r \in results}
          /\ hist' = [hist EXCEPT ![p].wroteResults = @ + 1]
          /\ calls' = [calls EXCEPT ![p] =
                  Returned(@, MultiSuccess(c), MultiResponse(c.entry, MultiSuccess(c)))]
          /\ okContests' = OkAfter(c, MultiSuccess(c))
    /\ UNCHANGED <<fetch, gen, nruns, bets, ncalls, nfail, ensure>>


---------------------------------------------------------------------------
(* src/server.js: fetchLatestResult and checkPendingBets *)

\* PRICING.prizes of src/server.js
PRICING_prizes ==
    [m \in 11..15 |->
        CASE m = 11 -> 600 [] m = 12 -> 1200 [] m = 13 -> 3000 [] m = 14 -> 150000
          [] OTHER -> 150000000]

\* An HTTP answer: its ok flag and its body as response.json() gives it
\* (Null: the body is not JSON and json() throws). A parsed body holds each
\* field the code reads, Null when the field is absent.
Http(ok, body) == [kind |-> "http", ok |-> ok, body |-> body]

NoData ==
    [numero |-> Null, concurso |-> Null, dezenas |-> Null, listaDezenas |-> Null,
     numbers |-> Null, dataApuracao |-> Null, data |-> Null]

\* a || b where a, if the payload holds it, is a number or a string: b when a
\* is absent or falsy (0)
OrElse(a, b) == IF ~IsNull(a) /\ Truthy(Val(a)) THEN a ELSE b

\* a || b where a, if the payload holds it, is an array or a date: it is truthy
OrElseAbsent(a, b) == IF ~IsNull(a) THEN a ELSE b

\* fetchLatestResult (lines 325-346): the primary source, the alternative one
\* when the primary answers with a non-success status, then the body of
\* whichever answered last. Null is `return null`.
ServerFetchLatestResult(primary, alternative) ==
    IF primary.kind = "error" THEN Null
    ELSE LET response == IF ~primary.ok THEN alternative ELSE primary
         IN IF response.kind = "error" THEN Null
            ELSE IF IsNull(response.body) THEN Null
            ELSE LET data == Val(response.body)
                 IN Some([contestNumber |-> OrElse(data.numero, data.concurso),
                          numbers |-> OrElseAbsent(data.dezenas,
                                                   OrElseAbsent(data.listaDezenas, data.numbers)),
                          date |-> OrElseAbsent(data.dataApuracao,
                                                OrElseAbsent(data.data, Some(today)))])

\* The answers of the two sources drawn in the model: the primary API gives
\* the contest number as a number and the drawn numbers as numeral strings
\* under listaDezenas; the alternative gives them under concurso and dezenas.
\* One answer of the primary API holds 0 as numero besides concurso, and one
\* holds the contest number without the numbers.
PrimaryResponses ==
    {NetError,
     Http(FALSE, Null),
     Http(TRUE, Some([NoData EXCEPT !.numero = Some(JsNum(3001))])),
     Http(TRUE, Some([NoData EXCEPT !.numero = Some(JsNum(0)),
                                    !.concurso = Some(JsNum(3001)),
                                    !.listaDezenas = Some(AsStrs(Draw1)),
                                    !.dataApuracao = Some(today)])),
     Http(TRUE, Some([NoData EXCEPT !.numero = Some(JsNum(3001)),
                                    !.listaDezenas = Some(AsStrs(Draw1)),
                                    !.dataApuracao = Some(today)])),
     Http(TRUE, Some([NoData EXCEPT !.numero = Some(JsNum(3002)),
                                    !.numbers = Some(AsNums(Draw2))]))}

AlternativeResponses ==
    {NetError,
     Http(FALSE, Null),
     Http(FALSE, Some(NoData)),
     Http(TRUE, Some([NoData EXCEPT !.concurso = Some(JsNum(3001)),
                                    !.dezenas = Some(AsNums(Draw1)),
                                    !.data = Some(today)]))}

ServerFetchOutcomes ==
    {ServerFetchLatestResult(a, b) : a \in PrimaryResponses, b \in AlternativeResponses}

\* checkPendingBets returns nothing; its catch block logs the error.
Undefined == [undefined |-> TRUE]

\* The cron job answers nobody; POST /api/check-bets answers {success: true}
\* (lines 572-582, 593-596).
ServerResponse(entry) ==
    IF entry = "cron" THEN NoResp ELSE [status |-> 200, success |-> TRUE]

\* The source answered with a status outside 200-299
NonSuccess(response) == response.kind = "http" /\ ~response.ok

\* The hourly cron job and POST /api/check-bets: checkPendingBets (lines
\* 348-351) is called and awaits fetchLatestResult. Other handlers run while
\* it awaits.
ServerCheckPendingBets(p, entry) ==
    /\ FreeSlot(p)
    /\ ncalls < MaxCalls
    /\ calls' = [calls EXCEPT ![p] = [IdleCall EXCEPT !.entry = entry, !.pc = "s_fetch"]]
    /\ hist' = [StartHist(p, JsNum(0)) EXCEPT ![p].repeat = FALSE]
    /\ ncalls' = ncalls + 1
    /\ UNCHANGED <<fetch, bets, results, nfail, okContests, gen, nruns, ensure>>

\* fetchLatestResult has returned to checkPendingBets (lines 351-363): the
\* return when there is no result, or else the existence query issued.
\* primary and alternative are what the two sources answered; the fetch
\* touches no store, so its awaits are one step here.
ServerFetched(p, primary, alternative) ==
    /\ calls[p].pc = "s_fetch"
    /\ LET latestResult == ServerFetchLatestResult(primary, alternative)
           failed == NonSuccess(primary) /\ NonSuccess(alternative)
       IN IF IsNull(latestResult)
          THEN /\ calls' = [calls EXCEPT ![p] =
                      [@ EXCEPT !.pc = "done", !.resp = ServerResponse(calls[p].entry)]]
               /\ hist' = [hist EXCEPT ![p].bothNonSuccess = failed]
          ELSE /\ calls' = [calls EXCEPT ![p] =
                      [@ EXCEPT !.pc = "s_exist", !.resultData = Val(latestResult)]]
               /\ hist' = [hist EXCEPT
                              ![p].contest = IF IsNull(Val(latestResult).contestNumber) THEN 0
                                             ELSE PgInt(Val(Val(latestResult).contestNumber)),
                              ![p].repeat = /\ ~IsNull(Val(latestResult).contestNumber)
                                            /\ PgInt(Val(Val(latestResult).contestNumber)) \in okContests,
                              ![p].bothNonSuccess = failed]
    /\ UNCHANGED <<fetch, bets, results, ncalls, nfail, okContests, gen, nruns, ensure>>

\* A store query of the call in slot p throws: the catch block (lines 410-412)
\* logs it and the call returns, with no value as on every path.
ServerStoreError(p) ==
    /\ calls[p].pc \in {"s_exist", "s_insert", "s_pending", "s_update", "s_totals"}
    /\ nfail < MaxFailures
    /\ nfail' = nfail + 1
    /\ calls' = [calls EXCEPT ![p] = Returned(@, Undefined, ServerResponse(@.entry))]
    /\ UNCHANGED <<fetch, bets, results, hist, ncalls, okContests, gen, nruns, ensure>>

\* SELECT id FROM results WHERE contest_number = $1 (lines 359-365); an
\* undefined contest number is sent as NULL, which no row equals.
ServerExisting(p) ==
    /\ calls[p].pc = "s_exist"
    /\ LET n == calls[p].resultData.contestNumber
           existing == IF IsNull(n) THEN {} ELSE ExistingRows(results, Val(n))
       IN /\ hist' = [hist EXCEPT ![p].queried = TRUE, ![p].rowAtCheck = existing # {}]
          /\ calls' = [calls EXCEPT ![p] =
                  [@ EXCEPT !.pc = IF Cardinality(existing) = 0 THEN "s_insert" ELSE "s_pending"]]
    /\ UNCHANGED <<fetch, bets, results, ncalls, nfail, okContests, gen, nruns, ensure>>

\* INSERT INTO results (contest_number, numbers, date) (lines 365-372): the
\* store rejects a NULL contest number or NULL numbers (NOT NULL) and a stored
\* contest number (UNIQUE), and the catch block logs the error; the other
\* columns take their default 0.
ServerInsertRow(p) ==
    /\ calls[p].pc = "s_insert"
    /\ LET c == calls[p]
           rd == c.resultData
       IN IF IsNull(rd.contestNumber) \/ IsNull(rd.numbers)
          THEN /\ calls' = [calls EXCEPT ![p] =
                       Returned(@, Undefined, ServerResponse(c.entry))]
               /\ UNCHANGED <<results, hist>>
          ELSE IF ExistingRows(results, Val(rd.contestNumber)) # {}
          THEN /\ calls' = [calls EXCEPT ![p] =
                       Returned(@, Undefined, ServerResponse(c.entry))]
               /\ hist' = [hist EXCEPT ![p].rejected = TRUE]
               /\ UNCHANGED results
          ELSE /\ results' = results \cup
                       {[contest_number |-> PgInt(Val(rd.contestNumber)),
                         numbers |-> PgIntArray(Val(rd.numbers)),
                         date |-> Val(rd.date),
                         total_prize |-> 0,
                         bets_checked |-> 0]}
               /\ hist' = [hist EXCEPT ![p].wroteResults = @ + 1]
               /\ calls' = [calls EXCEPT ![p] = [@ EXCEPT !.pc = "s_pending"]]
    /\ UNCHANGED <<fetch, bets, ncalls, nfail, okContests, gen, nruns, ensure>>

\* The return of checkPendingBets after the loop (lines 401-409) for the call
\* record c: with nothing checked no total is written and the call returns.
ServerAfterLoop(c) ==
    IF c.checkedCount > 0 THEN [c EXCEPT !.pc = "s_totals"]
    ELSE Returned(c, Undefined, ServerResponse(c.entry))

\* SELECT * FROM bets WHERE result_numbers IS NULL is answered (lines
\* 374-385), in any order. With no row the loop is skipped. With rows the
\* matches of the first are counted before anything is awaited:
\* latestResult.numbers being undefined, includes() throws a TypeError there,
\* the catch block logs it and the call returns; else the UPDATE of the first
\* row is awaited.
ServerPending(p) ==
    /\ calls[p].pc = "s_pending"
    /\ \E rows \in PendingUnordered(bets) :
          LET thrown == Len(rows) > 0 /\ IsNull(calls[p].resultData.numbers)
          IN /\ hist' = [hist EXCEPT ![p].loaded = Some(PendingIds(bets)),
                                      ![p].betsAtLoad = Len(bets)]
             /\ calls' = [calls EXCEPT ![p] =
                     IF thrown THEN Returned(@, Undefined, ServerResponse(@.entry))
                     ELSE IF Len(rows) = 0
                     THEN ServerAfterLoop([@ EXCEPT !.totalPrize = 0, !.checkedCount = 0])
                     ELSE [@ EXCEPT !.pc = "s_update", !.pending = rows, !.i = 1,
                                    !.totalPrize = 0, !.checkedCount = 0]]
             /\ okContests' = IF Len(rows) = 0 /\ ~IsNull(calls[p].resultData.contestNumber)
                              THEN okContests \cup {PgInt(Val(calls[p].resultData.contestNumber))}
                              ELSE okContests
    /\ UNCHANGED <<fetch, bets, results, ncalls, nfail, gen, nruns, ensure>>

\* One pass of the settlement loop (lines 382-399): the UPDATE of the row is
\* answered, and the matches of the next row are counted. The loop is in
\* course only with latestResult.numbers an array.
ServerUpdateBet(p) ==
    /\ calls[p].pc = "s_update"
    /\ ~IsNull(calls[p].resultData.numbers)
    /\ LET c == calls[p]
           rd == c.resultData
           id == c.pending[c.i]
           flat == [contestNumber |-> Val(rd.contestNumber), numbers |-> Val(rd.numbers)]
           matches == Matches(bets[id].numbers, flat.numbers)
           prize == PrizeFor(PRICING_prizes, matches)
       IN /\ bets' = UpdateBet(bets, id, flat, matches, prize)
          /\ hist' = [hist EXCEPT ![p].wrote = @ \cup {id}]
          /\ calls' = [calls EXCEPT ![p] =
                  LET next == [@ EXCEPT !.totalPrize = @ + prize,
                                        !.checkedCount = @ + 1,
                                        !.i = @ + 1]
                  IN IF c.i = Len(c.pending) THEN ServerAfterLoop(next) ELSE next]
    /\ UNCHANGED <<fetch, results, ncalls, nfail, okContests, gen, nruns, ensure>>

\* UPDATE results SET total_prize = $1, bets_checked = $2 WHERE
\* contest_number = $3 (lines 402-409), then the return.
ServerUpdateTotals(p) ==
    /\ calls[p].pc = "s_totals"
    /\ LET c == calls[p]
           n == PgInt(Val(c.resultData.contestNumber))
       IN /\ results' = {IF r.contest_number = n
                         THEN [r EXCEPT !.total_prize = c.totalPrize, !.bets_checked = c.checkedCount]
                         ELSE r : r \in results}
          /\ hist' = [hist EXCEPT ![p].wroteResults = @ + 1]
          /\ calls' = [calls EXCEPT ![p] = Returned(@, Undefined, ServerResponse(c.entry))]
          /\ okContests' = okContests \cup {n}
    /\ UNCHANGED <<fetch, bets, ncalls, nfail, gen, nruns, ensure>>

---------------------------------------------------------------------------
(* Bet generation *)

Strategies == {"weighted", "balanced", "moderate", "distributed", "intelligent", "random"}

\* The values Math.random returns after its first n
RandomFrom(random, n) == [j \in DOMAIN random |-> RandomAt(random, n + j)]

\* Math.floor(Math.random() * k), for the n-th value
FloorRandom(random, n, k) == (RandomAt(random, n) * k) \div RandomUnit

\* [...new Set(numbers)]: the first occurrence of each value, in order
\* Unique keeping the repeats: the array as it is
UniqueKeepsRepeats(arr) == arr

RECURSIVE Unique(_)
Unique(arr) ==
    IF Len(arr) = 0 THEN <<>>
    ELSE LET init == Unique(SubSeq(arr, 1, Len(arr) - 1))
             last == arr[Len(arr)]
         IN IF Includes(init, last) THEN init ELSE Append(init, last)

\* The numbers of 1..25 that arr does not hold, ascending (lines 880-883)
RECURSIVE Available(_, _)
Available(arr, i) ==
    IF i > 25 THEN <<>>
    ELSE (IF Includes(arr, i) THEN <<>> ELSE <<i>>) \o Available(arr, i + 1)

\* [arr[i], arr[j]] = [arr[j], arr[i]] (positions from 1)
Swap(arr, i, j) == [arr EXCEPT ![i] = arr[j], ![j] = arr[i]]

\* The loop of lines 884-887 from index i down to 1 (indices from 0, as in
\* the code), n values of `random` having been read: the element at i changes
\* places with the one at j = Math.floor(Math.random() * (i + 1)).
RECURSIVE Shuffle(_, _, _, _)
Shuffle(available, i, random, n) ==
    IF i <= 0 THEN available
    ELSE Shuffle(Swap(available, i + 1, FloorRandom(random, n + 1, i + 1) + 1),
                 i - 1, random, n + 1)

\* ensureExactly15Numbers (lines 876-892) on an array of numbers, Math.random
\* returning the values `random`
EnsureExactly15Numbers(numbers, random) ==
    LET unique == Unique(numbers)
        sorted(arr) == PgIntArray(SortNums(AsNums(arr)))
    IN IF Len(unique) = 15 THEN sorted(unique)
       ELSE IF Len(unique) > 15 THEN sorted(SubSeq(unique, 1, 15))
       ELSE LET available == Available(unique, 1)
                shuffled == Shuffle(available, Len(available) - 1, random, 0)
                take == IF 15 - Len(unique) < Len(shuffled) THEN 15 - Len(unique)
                        ELSE Len(shuffled)
            IN sorted(unique \o SubSeq(shuffled, 1, take))

\* Values of Math.random under which the loop of lines 884-887, from index i
\* down, leaves the numbers `first` in the first places of arr: down to the
\* index Cardinality(first) the element at i changes places with the last
\* element up to i that is not of `first`, below it every element stays. The
\* value drawn for j at index i is the least one with
\* Math.floor(value * (i + 1)) = j.
RECURSIVE DrawsFor(_, _, _)
DrawsFor(arr, i, first) ==
    IF i <= 0 THEN <<>>
    ELSE LET j == IF i < Cardinality(first) THEN i
                  ELSE CHOOSE x \in 0..i : /\ arr[x + 1] \notin first
                                           /\ \A y \in (x + 1)..i : arr[y + 1] \in first
         IN <<(RandomUnit * j + i) \div (i + 1)>>
            \o DrawsFor(Swap(arr, i + 1, j + 1), i - 1, first)

\* Values of Math.random for a call of ensureExactly15Numbers on `numbers`:
\* one array of values for each set of numbers the shuffle can leave in the
\* places the fill of lines 888-890 takes from. The sort of line 891 forgets
\* the order of what was taken, so that these are all the outcomes of the
\* call. No value is read when the array holds 15 distinct numbers or more.
ShuffleDraws(numbers) ==
    LET unique == Unique(numbers)
        available == Available(unique, 1)
        take == IF 15 - Len(unique) < Len(available) THEN 15 - Len(unique)
                ELSE Len(available)
    IN IF Len(unique) >= 15 THEN {NoDraws}
       ELSE {DrawsFor(available, Len(available) - 1, first) :
                first \in {s \in SUBSET Elems(available) : Cardinality(s) = take}}

\* ensureExactly15Numbers has not been called
NoEnsure == [numbers |-> <<>>, called |-> FALSE, out |-> <<>>]

\* len numbers of 1..25, going from start by step around 1..25 (step 24
\* counts down, step 7 scrambles)
Walk(start, step, len) == [j \in 1..len |-> ((start - 1 + (j - 1) * step) % 25) + 1]

\* Arrays ensureExactly15Numbers is called on: a walk of 25 distinct numbers
\* cut to len, followed by its first `again` numbers once more; short walks
\* without repeats; and a scrambled walk of MinDistinct numbers gone through
\* twice over. The arrays hold MinDistinct distinct numbers or more, and
\* MaxInputLen numbers at most.
EnsureInputs ==
    {Walk(start, step, len) \o Walk(start, step, again) :
        start \in {1, 11, 25}, step \in {1, 7, 24},
        len \in {10, 12, 14, 15, 16, 17, MaxInputLen - 2}, again \in {0, 2}}
    \cup {Walk(25, 24, 7), Walk(11, 7, 8), Walk(1, 1, 9)}
    \cup {Walk(1, 7, MinDistinct) \o Walk(1, 7, MinDistinct)}

\* A call of ensureExactly15Numbers (lines 876-892; src/server.js lines
\* 71-103) on the array held in ensure, Math.random returning the values
\* `random`.
Ensure15(random) ==
    /\ ~ensure.called
    /\ ensure' = [ensure EXCEPT !.called = TRUE,
                                !.out = EnsureExactly15Numbers(ensure.numbers, random)]
    /\ UNCHANGED <<bets, results, calls, hist, ncalls, nfail, okContests, gen, nruns, fetch>>

\* The keys of an object that are array indices, as Object.entries lists
\* them: ascending
RECURSIVE KeysAscending(_)
KeysAscending(keys) ==
    IF keys = {} THEN <<>>
    ELSE LET least == CHOOSE k \in keys : \A other \in keys : k <= other
         IN <<least>> \o KeysAscending(keys \ {least})

\* The numbers of the rows (an array of results rows), row after row
RECURSIVE RowNumbers(_)
RowNumbers(rows) ==
    IF Len(rows) = 0 THEN <<>> ELSE Head(rows).numbers \o RowNumbers(Tail(rows))

\* How often the rows hold the number n
Occurrences(rows, n) ==
    Cardinality(UNION {{<<r, j>> : j \in {j \in DOMAIN rows[r].numbers : rows[r].numbers[j] = n}} :
                          r \in DOMAIN rows})

\* The frequency object after the two loops of lines 912-914, as
\* Object.entries lists it with parseInt on the keys: the keys 1..25 start at 0
\* and are counted up; frequency[num]++ on a key the object does not hold
\* (a drawn number outside 1..25) leaves NaN under that key. The keys that are
\* array indices (0 and up) come first, ascending; a negative number makes a
\* key that is none, and these come after, in the order they were set.
FrequencyEntries(rows) ==
    LET drawn == RowNumbers(rows)
        negative(n) == n < 0
        keys == KeysAscending((1..25) \cup {n \in Elems(drawn) : n >= 0})
                \o Unique(SelectSeq(drawn, negative))
    IN [k \in DOMAIN keys |->
           [num |-> keys[k],
            freq |-> IF keys[k] \in 1..25 THEN JsNum(Occurrences(rows, keys[k])) ELSE NaN]]

\* .sort((a, b) => b.freq - a.freq) (line 917)
SortByFreq(arr) == ArraySort(FreqOrder, arr).arr

\* if (!numbers.includes(x)) numbers.push(x) for each x of items in turn
RECURSIVE PushEach(_, _)
PushEach(numbers, items) ==
    IF Len(items) = 0 THEN numbers
    ELSE PushEach(IF Includes(numbers, Head(items)) THEN numbers
                  ELSE Append(numbers, Head(items)),
                  Tail(items))

\* The same, leaving the loop once numbers holds 15 (lines 924-927)
RECURSIVE PushUntil15(_, _)
PushUntil15(numbers, items) ==
    IF Len(items) = 0 \/ Len(numbers) >= 15 THEN numbers
    ELSE PushUntil15(IF Includes(numbers, Head(items)) THEN numbers
                     ELSE Append(numbers, Head(items)),
                     Tail(items))

\* The array generateBalancedBet builds (lines 915-927): the 5 most frequent
\* numbers, the 5 least frequent from the end of the sorted array backwards,
\* then the middle ones up to 15.
BalancedNumbers(rows) ==
    LET entries == SortByFreq(FrequencyEntries(rows))
        sorted == [k \in DOMAIN entries |-> entries[k].num]
        n == Len(sorted)
        top == SubSeq(sorted, 1, IF n < 5 THEN n ELSE 5)
        fromEnd == [j \in 1..(IF n < 5 THEN n ELSE 5) |-> sorted[n + 1 - j]]
        middle == SubSeq(sorted, 6, n - 5)
    IN PushUntil15(PushEach(top, fromEnd), middle)

---------------------------------------------------------------------------
(* The six strategies (src/unnamed/part_000 lines 894-991 and 109-206,     *)
(* src/server.js lines 106-283: the same functions in the three revisions) *)

\* SELECT numbers FROM results ORDER BY date DESC LIMIT limit: the rows in
\* every order the store may give them (rows of one date come in any order),
\* cut to the limit.
LatestRows(rs, limit) ==
    LET n == Cardinality(rs)
        m == IF n < limit THEN n ELSE limit
    IN {SubSeq(s, 1, m) :
            s \in {t \in [1..n -> rs] :
                      /\ \A j, k \in 1..n : j # k => t[j] # t[k]
                      /\ \A j, k \in 1..n : j < k => t[j].date >= t[k].date}}

\* The loop of generateRandomBet and generateModerateBet (lines 986-989,
\* 935-938): range[Math.floor(Math.random() * range.length)] is pushed unless
\* held, until 15 numbers are. n values of `random` have been read.
RECURSIVE DrawUntil15(_, _, _, _)
DrawUntil15(numbers, range, random, n) ==
    IF Len(numbers) >= 15 THEN [numbers |-> numbers, calls |-> n]
    ELSE LET num == range[FloorRandom(random, n + 1, Len(range)) + 1]
         IN DrawUntil15(IF Includes(numbers, num) THEN numbers ELSE Append(numbers, num),
                        range, random, n + 1)

\* generateRandomBet (lines 984-991): Math.floor(Math.random() * 25) + 1 is a
\* number of 1..25
GenerateRandomBet(random) ==
    LET drawn == DrawUntil15(<<>>, Range(1, 25), random, 0)
    IN EnsureExactly15Numbers(drawn.numbers, RandomFrom(random, drawn.calls))

\* generateModerateBet (lines 932-940)
GenerateModerateBet(random) ==
    LET drawn == DrawUntil15(<<>>, Range(6, 20), random, 0)
    IN EnsureExactly15Numbers(drawn.numbers, RandomFrom(random, drawn.calls))

\* The forEach of generateDistributedBet (lines 945-950) from group g on: the
\* group is sorted by () => Math.random() - 0.5, each call of which reads the
\* next value, and its first three numbers are pushed.
RECURSIVE DistributedNumbers(_, _, _, _)
DistributedNumbers(numbers, g, random, n) ==
    IF g > 5 THEN [numbers |-> numbers, calls |-> n]
    ELSE LET shuffled == ArraySort(RandomOrder(random, n), Range(5 * g - 4, 5 * g))
         IN DistributedNumbers(PushEach(numbers, SubSeq(shuffled.arr, 1, 3)),
                               g + 1, random, n + shuffled.calls)

\* generateDistributedBet (lines 942-952)
GenerateDistributedBet(random) ==
    LET drawn == DistributedNumbers(<<>>, 1, random, 0)
    IN EnsureExactly15Numbers(drawn.numbers, RandomFrom(random, drawn.calls))

\* generateWeightedBet (lines 894-907) over the rows its query returned: the
\* 15 entries of the greatest weight. A weight freq + Math.random() * 5 is
\* held in units of 1 / RandomUnit; it is NaN where the frequency is.
GenerateWeightedBet(rows, random) ==
    LET entries == FrequencyEntries(rows)
        weighted == [k \in DOMAIN entries |->
                        [num |-> entries[k].num,
                         weight |-> IF entries[k].freq.t = "nan" THEN NaN
                                    ELSE JsNum(entries[k].freq.v * RandomUnit
                                               + RandomAt(random, k) * 5)]]
        sorted == ArraySort(WeightOrder, weighted).arr
        numbers == [k \in 1..15 |-> sorted[k].num]
    IN EnsureExactly15Numbers(numbers, RandomFrom(random, Len(entries)))

\* generateBalancedBet (lines 909-930) over the rows its query returned: the
\* array it builds holds 15 distinct numbers, so that ensureExactly15Numbers
\* sorts it and reads no value of Math.random.
GenerateBalancedBet(rows) == EnsureExactly15Numbers(BalancedNumbers(rows), NoDraws)

\* The keys a-b set in the pairs object by one row (lines 962-967): one for
\* each two positions i < j of its numbers, in the order of the two loops
RECURSIVE RowPairs(_, _)
RowPairs(numbers, i) ==
    IF i >= Len(numbers) THEN <<>>
    ELSE [j \in 1..(Len(numbers) - i) |-> <<numbers[i], numbers[i + j]>>]
         \o RowPairs(numbers, i + 1)

\* ... by the rows in turn
RECURSIVE AllPairs(_)
AllPairs(rows) ==
    IF Len(rows) = 0 THEN <<>>
    ELSE RowPairs(Head(rows).numbers, 1) \o AllPairs(Tail(rows))

\* The positions of set, among those of `left`, in the order
\* .sort((a, b) => b[1] - a[1]) gives their keys (greatest count first, keys
\* of one count in the order they were set), up to n of them
RECURSIVE TopPositions(_, _, _)
TopPositions(count, left, n) ==
    IF n = 0 \/ left = {} THEN <<>>
    ELSE LET top == CHOOSE i \in left :
                        \A k \in left : count[k] < count[i] \/ (count[k] = count[i] /\ i <= k)
         IN <<top>> \o TopPositions(count, left \ {top}, n - 1)

\* topPairs (line 969): the five keys of the pairs object with the greatest
\* counts
TopPairs(rows) ==
    LET set == AllPairs(rows)
        n == Len(set)
        keys == {i \in 1..n : \A j \in 1..(i - 1) : set[j] # set[i]}
        count == SubSeq([i \in 1..n |-> IF i \in keys
                                        THEN Cardinality({j \in i..n : set[j] = set[i]})
                                        ELSE 0], 1, n)
        top == TopPositions(count, keys, 5)
    IN [k \in DOMAIN top |-> set[top[k]]]

\* const [a, b] = pair.split('-').map(Number) (line 972) on the key `${a}-${b}`
\* of the pair <<a, b>>: the minus sign of a negative number splits the key
\* too, and the empty string before it gives 0.
SplitPair(pair) ==
    IF pair[1] < 0 THEN <<0, 0 - pair[1]>>
    ELSE IF pair[2] < 0 THEN <<pair[1], 0>>
    ELSE pair

\* The array generateIntelligentBet builds (lines 970-981): the numbers of
\* the top pairs, then the keys of the frequency object from the most
\* frequent down, up to 15.
IntelligentNumbers(rows) ==
    LET top == TopPairs(rows)
        paired == PushEach(<<>>, [k \in 1..(2 * Len(top)) |->
                                     SplitPair(top[(k + 1) \div 2])[2 - (k % 2)]])
        entries == SortByFreq(FrequencyEntries(rows))
        sorted == [k \in DOMAIN entries |-> entries[k].num]
    IN PushUntil15(paired, sorted)

\* generateIntelligentBet (lines 954-982) over the rows its query returned, in
\* the order it returned them. The array it builds holds 15 distinct numbers.
GenerateIntelligentBet(rows) == EnsureExactly15Numbers(IntelligentNumbers(rows), NoDraws)

\* generateBalancedBet and generateIntelligentBet over each of the arrays
\* `draws` of numbers arrays, as a table
RECURSIVE BetsTable(_)
BetsTable(draws) ==
    IF draws = {} THEN <<>>
    ELSE LET d == CHOOSE x \in draws : TRUE
             rows == [k \in DOMAIN d |-> [numbers |-> d[k]]]
         IN (d :> [balanced |-> GenerateBalancedBet(rows),
                   intelligent |-> GenerateIntelligentBet(rows)])
            @@ BetsTable(draws \ {d})

\* ... over every array of up to MaxCalls rows holding the numbers the
\* results rows hold under the inputs of the specifications, worked out once
KnownBets ==
    LET drawn == {Draw1, Draw2, <<16>> \o Range(1, 14), Range(1, 14) \o <<26>>}
    IN BetsTable(UNION {[1..n -> drawn] : n \in 0..MaxCalls})

\* The two over the rows of a SELECT: looked up where worked out already
BalancedBetOver(rows) ==
    LET draws == [k \in DOMAIN rows |-> rows[k].numbers]
    IN IF draws \in DOMAIN KnownBets THEN KnownBets[draws].balanced
       ELSE GenerateBalancedBet(rows)

IntelligentBetOver(rows) ==
    LET draws == [k \in DOMAIN rows |-> rows[k].numbers]
    IN IF draws \in DOMAIN KnownBets THEN KnownBets[draws].intelligent
       ELSE GenerateIntelligentBet(rows)

\* The strategies that query the store: their numbers come from the rows the
\* SELECT returned, and from generateRandomBet when the SELECT fails (the
\* catch of lines 906, 929, 981).
Querying == {"weighted", "balanced", "intelligent"}

\* The LIMIT of a querying strategy's SELECT (lines 896, 911, 956)
Limit(name) == CASE name = "weighted" -> 100 [] name = "balanced" -> 50 [] OTHER -> 30

\* What a querying strategy returns, its SELECT having failed or having
\* returned rows
QueryNumbers(name, rows, failed, random) ==
    CASE failed -> GenerateRandomBet(random)
      [] name = "weighted" /\ ~failed -> GenerateWeightedBet(rows, random)
      [] name = "balanced" /\ ~failed -> BalancedBetOver(rows)
      [] OTHER -> IntelligentBetOver(rows)

\* What a strategy that does not query the store returns
DrawNumbers(name, random) ==
    CASE name = "moderate" -> GenerateModerateBet(random)
      [] name = "distributed" -> GenerateDistributedBet(random)
      [] OTHER -> GenerateRandomBet(random)

\* The values of Math.random the specifications draw for a call of a querying
\* strategy
QueryDraws(name, failed) ==
    CASE failed -> RandomBetDraws
      [] name = "weighted" /\ ~failed -> WeightedBetDraws
      [] OTHER -> {NoDraws}

\* ... and of a strategy that does not query the store
StrategyDraws(name) ==
    CASE name = "moderate" -> ModerateBetDraws
      [] name = "distributed" -> DistributedBetDraws
      [] OTHER -> RandomBetDraws

---------------------------------------------------------------------------
(* Generation: generateDailyBets and POST /api/generate-custom             *)

\* The strategies in the order generateDailyBets runs them (lines 1000-1007)
DailyStrategies == <<"weighted", "balanced", "moderate", "distributed", "intelligent", "random">>

\* A generator call awaiting the store: a generateDailyBets run ("daily") or
\* a POST /api/generate-custom request ("custom") at the strategy `strategy`.
\* numbers is Null while the strategy has not returned, and holds the numbers
\* a querying strategy returned while their INSERT is awaited. A strategy that
\* does not query the store awaits nothing: it is called in the step that
\* answers the INSERT of its numbers.
Awaiting(call, strategy, numbers) == [call |-> call, strategy |-> strategy, numbers |-> numbers]

\* The pass of a run that calls the strategy `name`
PassOf(name) == CHOOSE k \in DOMAIN DailyStrategies : DailyStrategies[k] = name

\* A run is called: it awaits the strategy of its first pass.
RunStarted == gen (+) SetToBag({Awaiting("daily", DailyStrategies[1], Null)})

\* The strategy of pass k of a run has returned numbers: the run awaits their
\* INSERT.
RunHolds(k, numbers) ==
    (gen (-) SetToBag({Awaiting("daily", DailyStrategies[k], Null)}))
        (+) SetToBag({Awaiting("daily", DailyStrategies[k], Some(numbers))})

\* A run awaiting e has ended the pass: it awaits the strategy of the next
\* pass, or has returned after the last.
RunPassed(e) ==
    IF PassOf(e.strategy) = Len(DailyStrategies) THEN gen (-) SetToBag({e})
    ELSE (gen (-) SetToBag({e}))
            (+) SetToBag({Awaiting("daily", DailyStrategies[PassOf(e.strategy) + 1], Null)})

\* The numbers a call awaiting e inserts: those its querying strategy has
\* returned, or those of the strategy called now, Math.random returning the
\* values `random`
PassNumbers(e, random) ==
    IF e.strategy \in Querying THEN Val(e.numbers) ELSE DrawNumbers(e.strategy, random)

\* The SELECT of a querying strategy is answered, with rows or with an error.
StrategyAnswered(name, failed) ==
    /\ name \in Querying
    /\ Len(bets) < MaxBets
    /\ IF failed THEN nfail < MaxFailures /\ nfail' = nfail + 1 ELSE UNCHANGED nfail

\* INSERT INTO bets (strategy, numbers, date, type) is answered: the row is
\* stored, or the store raises an error. The model's store holds MaxBets
\* bets.
BetInserted(name, numbers, type, stored) ==
    /\ Len(bets) < MaxBets
    /\ IF stored
       THEN /\ bets' = Append(bets, NewBet(name, numbers, today, type))
            /\ UNCHANGED nfail
       ELSE /\ nfail < MaxFailures
            /\ nfail' = nfail + 1
            /\ UNCHANGED bets

\* A pass of a run awaiting e: the strategy has returned numbers (it is
\* called here when it does not query the store); the pass is skipped when
\* they are not 15, else the INSERT is awaited and answered, an error being
\* caught and logged; then the next pass.
DailyPass(e, random, type, stored) ==
    /\ BagIn(e, gen)
    /\ e.call = "daily"
    /\ (e.strategy \in Querying) = ~IsNull(e.numbers)
    /\ Len(bets) < MaxBets
    /\ IF Len(PassNumbers(e, random)) # 15 THEN UNCHANGED <<bets, nfail>>
       ELSE BetInserted(e.strategy, PassNumbers(e, random), type, stored)
    /\ gen' = RunPassed(e)

\* src/server.js: the daily cron job or POST /api/generate-bets calls
\* generateDailyBets (lines 287-299, 561-570, 585-588).
ServerGenerateDailyBets ==
    /\ nruns < MaxRuns
    /\ Len(bets) < MaxBets
    /\ nruns' = nruns + 1
    /\ gen' = RunStarted
    /\ UNCHANGED <<fetch, bets, results, calls, hist, ncalls, nfail, okContests, ensure>>

\* src/server.js, pass k of a run (lines 301-303): the awaited strategy, one
\* of those that query the store, returns.
ServerGenerateNumbers(k, failed, random) ==
    /\ k \in DOMAIN DailyStrategies
    /\ BagIn(Awaiting("daily", DailyStrategies[k], Null), gen)
    /\ StrategyAnswered(DailyStrategies[k], failed)
    /\ \E rows \in LatestRows(results, Limit(DailyStrategies[k])) :
          gen' = RunHolds(k, QueryNumbers(DailyStrategies[k], rows, failed, random))
    /\ UNCHANGED <<nruns, fetch, bets, results, calls, hist, ncalls, okContests, ensure>>

\* src/server.js, a pass of a run (lines 303-320): the INSERT, which names no
\* type, so that the column takes its default.
ServerGenerateBet(e, random, stored) ==
    /\ DailyPass(e, random, Null, stored)
    /\ UNCHANGED <<nruns, fetch, results, calls, hist, ncalls, okContests, ensure>>

\* The manual-entry and multi-source revisions: the daily cron job or
\* POST /api/generate-bets calls generateDailyBets (lines 993-1011,
\* 1295-1300, 1336-1339; 208-224, 664-669, 711-714).
GenerateDailyBets ==
    /\ nruns < MaxRuns
    /\ Len(bets) < MaxBets
    /\ nruns' = nruns + 1
    /\ gen' = RunStarted
    /\ UNCHANGED <<fetch, bets, results, calls, hist, ncalls, nfail, okContests, ensure>>

\* Pass k of a run (lines 1012-1014; 226-228): the awaited strategy, one of
\* those that query the store, returns.
GenerateDailyNumbers(k, failed, random) ==
    /\ k \in DOMAIN DailyStrategies
    /\ BagIn(Awaiting("daily", DailyStrategies[k], Null), gen)
    /\ StrategyAnswered(DailyStrategies[k], failed)
    /\ \E rows \in LatestRows(results, Limit(DailyStrategies[k])) :
          gen' = RunHolds(k, QueryNumbers(DailyStrategies[k], rows, failed, random))
    /\ UNCHANGED <<nruns, fetch, bets, results, calls, hist, ncalls, okContests, ensure>>

\* A pass of a run (lines 1014-1027; 228-240): the bet is inserted with type
\* 'auto'.
GenerateDailyBet(e, random, stored) ==
    /\ DailyPass(e, random, "auto", stored)
    /\ UNCHANGED <<nruns, fetch, results, calls, hist, ncalls, okContests, ensure>>

\* POST /api/generate-custom with a distribution that names a querying
\* strategy (lines 1302-1317; 678-693): the awaited strategy returns, and the
\* request awaits the INSERT of its numbers.
GenerateCustomNumbers(name, failed, random) ==
    /\ nruns < MaxRuns
    /\ Len(bets) < MaxBets
    /\ StrategyAnswered(name, failed)
    /\ nruns' = nruns + 1
    /\ \E rows \in LatestRows(results, Limit(name)) :
          gen' = gen (+) SetToBag({Awaiting("custom", name,
                                            Some(QueryNumbers(name, rows, failed, random)))})
    /\ UNCHANGED <<fetch, bets, results, calls, hist, ncalls, okContests, ensure>>

\* POST /api/generate-custom, the INSERT of one bet of the distribution
\* (lines 1317-1330; 693-707): the bet is inserted with type 'manual' and
\* today's date. An error ends the request with status 500. The request
\* awaits e when its strategy queries the store, and comes in now when not.
\* The requests of the specifications ask for one bet.
GenerateCustom(e, random, stored) ==
    /\ e.call = "custom"
    /\ e.strategy \in Strategies
    /\ IF e.strategy \in Querying
       THEN /\ ~IsNull(e.numbers)
            /\ BagIn(e, gen)
            /\ gen' = gen (-) SetToBag({e})
            /\ UNCHANGED nruns
       ELSE /\ IsNull(e.numbers)
            /\ nruns < MaxRuns
            /\ nruns' = nruns + 1
            /\ UNCHANGED gen
    /\ BetInserted(e.strategy, PassNumbers(e, random), "manual", stored)
    /\ UNCHANGED <<fetch, results, calls, hist, ncalls, okContests, ensure>>

---------------------------------------------------------------------------
(* Specification of the manual-entry revision *)

Init ==
    /\ bets = <<>>
    /\ results = {}
    /\ calls = [p \in Procs |-> IdleCall]
    /\ hist = [p \in Procs |-> NoHist]
    /\ ncalls = 0
    /\ nfail = 0
    /\ okContests = {}
    /\ gen = EmptyBag
    /\ nruns = 0
    /\ fetch = IdleFetch
    /\ ensure = NoEnsure

NextManual ==
    \/ \E p \in Procs, body \in ManualBodies : ManualInsertResult(p, body)
    \/ \E p \in Procs : ManualExisting(p)
    \/ \E p \in Procs : ManualPending(p)
    \/ \E p \in Procs : ManualUpdateBet(p)
    \/ \E p \in Procs : ManualInsertRow(p)
    \/ \E p \in Procs : ManualStoreError(p)
    \/ GenerateDailyBets
    \/ /\ Len(bets) < MaxBets
       /\ \E e \in BagToSet(gen), failed \in BOOLEAN :
             /\ e.call = "daily" /\ IsNull(e.numbers)
             /\ \E random \in QueryDraws(e.strategy, failed) :
                   GenerateDailyNumbers(PassOf(e.strategy), failed, random)
    \/ /\ Len(bets) < MaxBets
       /\ \E e \in BagToSet(gen), stored \in BOOLEAN :
             /\ e.call = "daily"
             /\ \E random \in (IF IsNull(e.numbers) THEN StrategyDraws(e.strategy)
                               ELSE {NoDraws}) :
                   GenerateDailyBet(e, random, stored)
    \/ \E name \in Querying, failed \in BOOLEAN :
          /\ nruns < MaxRuns /\ Len(bets) < MaxBets
          /\ \E random \in QueryDraws(name, failed) :
                GenerateCustomNumbers(name, failed, random)
    \/ /\ Len(bets) < MaxBets
       /\ \E e \in BagToSet(gen), stored \in BOOLEAN :
             /\ e.call = "custom"
             /\ GenerateCustom(e, NoDraws, stored)
    \/ /\ Len(bets) < MaxBets /\ nruns < MaxRuns
       /\ \E name \in Strategies \ Querying, stored \in BOOLEAN :
             \E random \in StrategyDraws(name) :
                GenerateCustom(Awaiting("custom", name, Null), random, stored)

SpecManual == Init /\ [][NextManual]_vars

---------------------------------------------------------------------------
(* Specification of the multi-source revision *)

NextMulti ==
    \/ \E p \in Procs, entry \in {"cron", "force-check", "check-bets"} :
          MultiCheckPendingBets(p, entry)
    \/ \E p \in Procs, result \in FetchOutcomes : MultiFetched(p, result)
    \/ \E p \in Procs, body \in MultiBodies : MultiInsertResult(p, body)
    \/ \E p \in Procs : MultiExisting(p)
    \/ \E p \in Procs : MultiInsertRow(p)
    \/ \E p \in Procs : MultiPending(p)
    \/ \E p \in Procs : MultiUpdateBet(p)
    \/ \E p \in Procs : MultiUpdateTotals(p)
    \/ \E p \in Procs : MultiStoreError(p)
    \/ GenerateDailyBets
    \/ /\ Len(bets) < MaxBets
       /\ \E e \in BagToSet(gen), failed \in BOOLEAN :
             /\ e.call = "daily" /\ IsNull(e.numbers)
             /\ \E random \in QueryDraws(e.strategy, failed) :
                   GenerateDailyNumbers(PassOf(e.strategy), failed, random)
    \/ /\ Len(bets) < MaxBets
       /\ \E e \in BagToSet(gen), stored \in BOOLEAN :
             /\ e.call = "daily"
             /\ \E random \in (IF IsNull(e.numbers) THEN StrategyDraws(e.strategy)
                               ELSE {NoDraws}) :
                   GenerateDailyBet(e, random, stored)
    \/ \E name \in Querying, failed \in BOOLEAN :
          /\ nruns < MaxRuns /\ Len(bets) < MaxBets
          /\ \E random \in QueryDraws(name, failed) :
                GenerateCustomNumbers(name, failed, random)
    \/ /\ Len(bets) < MaxBets
       /\ \E e \in BagToSet(gen), stored \in BOOLEAN :
             /\ e.call = "custom"
             /\ GenerateCustom(e, NoDraws, stored)
    \/ /\ Len(bets) < MaxBets /\ nruns < MaxRuns
       /\ \E name \in Strategies \ Querying, stored \in BOOLEAN :
             \E random \in StrategyDraws(name) :
                GenerateCustom(Awaiting("custom", name, Null), random, stored)

SpecMulti == Init /\ [][NextMulti]_vars

---------------------------------------------------------------------------
(* Specification of the multi-source revision's GET /api/test-fetch *)

NextFetch ==
    \/ \E net \in FetchNetResponses : TestFetch(net)
    \/ FetchInvoke
    \/ FetchReturn
    \/ TestFetchRespond

SpecFetch == Init /\ [][NextFetch]_vars

\* The first GET /api/test-fetch after the start, under the scheduling of the
\* event loop: the continuation of the call runs once it is ready, and every
\* source called ends (fetch() carries a timeout of 10 seconds).
TestFetchFirst(net) == fetch.pc = "idle" /\ TestFetch(net)

NextFetchFirst ==
    \/ \E net \in FetchNetResponses : TestFetchFirst(net)
    \/ FetchInvoke
    \/ FetchReturn
    \/ TestFetchRespond

SpecFetchFair ==
    Init /\ [][NextFetchFirst]_vars /\ WF_vars(FetchInvoke) /\ WF_vars(FetchReturn)

---------------------------------------------------------------------------
(* Specification of ensureExactly15Numbers over the arrays of EnsureInputs *)

InitEnsure ==
    /\ bets = <<>>
    /\ results = {}
    /\ calls = [p \in Procs |-> IdleCall]
    /\ hist = [p \in Procs |-> NoHist]
    /\ ncalls = 0
    /\ nfail = 0
    /\ okContests = {}
    /\ gen = EmptyBag
    /\ nruns = 0
    /\ fetch = IdleFetch
    /\ \E numbers \in EnsureInputs : ensure = [NoEnsure EXCEPT !.numbers = numbers]

NextEnsure ==
    /\ ~ensure.called
    /\ \E random \in ShuffleDraws(ensure.numbers) : Ensure15(random)

SpecEnsure == InitEnsure /\ [][NextEnsure]_vars

---------------------------------------------------------------------------
(* Specification of src/server.js *)

NextServer ==
    \/ \E p \in Procs, entry \in {"cron", "check-bets"} : ServerCheckPendingBets(p, entry)
    \/ \E p \in Procs, primary \in PrimaryResponses, alternative \in AlternativeResponses :
          ServerFetched(p, primary, alternative)
    \/ \E p \in Procs : ServerExisting(p)
    \/ \E p \in Procs : ServerInsertRow(p)
    \/ \E p \in Procs : ServerPending(p)
    \/ \E p \in Procs : ServerUpdateBet(p)
    \/ \E p \in Procs : ServerUpdateTotals(p)
    \/ \E p \in Procs : ServerStoreError(p)
    \/ ServerGenerateDailyBets
    \/ /\ Len(bets) < MaxBets
       /\ \E e \in BagToSet(gen), failed \in BOOLEAN :
             /\ e.call = "daily" /\ IsNull(e.numbers)
             /\ \E random \in QueryDraws(e.strategy, failed) :
                   ServerGenerateNumbers(PassOf(e.strategy), failed, random)
    \/ /\ Len(bets) < MaxBets
       /\ \E e \in BagToSet(gen), stored \in BOOLEAN :
             /\ e.call = "daily"
             /\ \E random \in (IF IsNull(e.numbers) THEN StrategyDraws(e.strategy)
                               ELSE {NoDraws}) :
                   ServerGenerateBet(e, random, stored)

SpecServer == Init /\ [][NextServer]_vars

---------------------------------------------------------------------------
(* Properties *)

\* The call in slot p has returned from checkBetsWithResult.
HasReturned(p) == calls[p].pc = "done" /\ calls[p].ret # NoRet

\* It returned after a completed settlement pass: success with its counts.
ReturnedSettled(p) ==
    HasReturned(p) /\ calls[p].ret.success /\ "message" \notin DOMAIN calls[p].ret

\* It returned because a store query threw for a reason other than the
\* UNIQUE constraint.
ReturnedStoreError(p) == HasReturned(p) /\ calls[p].ret = Failure("store error")

RECURSIVE SumPrize(_, _)
SumPrize(bs, ids) ==
    IF ids = {} THEN 0
    ELSE LET id == CHOOSE x \in ids : TRUE IN bs[id].prize + SumPrize(bs, ids \ {id})

\* The bets settled under contest number n
BetsOfContest(bs, n) == {id \in DOMAIN bs : bs[id].contest_number = Some(n)}

\* C1: of two overlapping calls of the manual-entry reconcile for the same
\* contest number, neither hit by a store outage and neither returning on an
\* empty pending list, exactly one completes a settlement pass and returns its
\* counts, and the other returns AlreadyProcessed having updated no bet.
C1_ExactlyOneSettles ==
    \A p, q \in Procs :
        ( /\ p # q
          /\ HasReturned(p) /\ HasReturned(q)
          /\ hist[p].overlapped /\ hist[q].overlapped
          /\ hist[p].contest = hist[q].contest
          /\ ~hist[p].rowAtCheck
          /\ ~ReturnedStoreError(p) /\ ~ReturnedStoreError(q)
          /\ calls[p].ret # NoPending /\ calls[q].ret # NoPending )
        => \/ ReturnedSettled(p) /\ calls[q].ret = AlreadyProcessed /\ hist[q].wrote = {}
           \/ ReturnedSettled(q) /\ calls[p].ret = AlreadyProcessed /\ hist[p].wrote = {}

\* C2: a call of the manual-entry reconcile made after an earlier call for the
\* same contest number has returned success (bets may have been generated
\* before the second call read the bets table, none after) settles nothing
\* and changes no total: it returns success with checked 0 and totalPrize 0
\* (AlreadyProcessed) and writes neither a bets row nor a results row.
C2_SecondCallIdempotent ==
    \A p \in Procs :
        ( /\ HasReturned(p) /\ hist[p].repeat /\ ~hist[p].overlapped
          /\ ~ReturnedStoreError(p)
          /\ (IsNull(hist[p].loaded) \/ Len(bets) = hist[p].betsAtLoad) )
        => /\ calls[p].ret.success
           /\ calls[p].ret.checked = 0
           /\ calls[p].ret.totalPrize = 0
           /\ hist[p].wrote = {}
           /\ hist[p].wroteResults = 0

\* C3: in the manual-entry reconcile, once the existence query has answered
\* with the contest's row, the call has returned AlreadyProcessed (success,
\* checked 0, totalPrize 0, 'Ja conferido') and has written no bets row and no
\* results row.
C3_ExistingRowReturnsAlreadyProcessed ==
    \A p \in Procs :
        (hist[p].queried /\ hist[p].rowAtCheck)
        => /\ calls[p].pc = "done"
           /\ calls[p].ret = AlreadyProcessed
           /\ calls[p].resp.status = 200
           /\ hist[p].wrote = {}
           /\ hist[p].wroteResults = 0

\* C3 witness: a call has found the contest's row while a bet was pending, and
\* the bet is still pending after its return.
C3_Witness ==
    \E p \in Procs :
        /\ hist[p].queried /\ hist[p].rowAtCheck
        /\ calls[p].pc = "done"
        /\ PendingIds(bets) # {}
        /\ \A q \in Procs : ~Running(calls[q])

\* C4: in the multi-source reconcile, a call whose existence query answered
\* with the contest's row updates no bets row.
C4_ExistingRowNoBetMutation ==
    \A p \in Procs : (hist[p].queried /\ hist[p].rowAtCheck) => hist[p].wrote = {}

\* C5: a bet's settlement is written once: a bets row whose result_numbers is
\* not NULL is never changed by a later step.
C5_SettlementWrittenOnce ==
    [][\A id \in DOMAIN bets : ~IsNull(bets[id].result_numbers) => bets'[id] = bets[id]]_vars

\* C6: when no reconcile call is in flight, every results row of the
\* manual-entry revision counts exactly the bets settled under its contest
\* number: bets_checked is their number and total_prize the sum of their prizes.
C6_NoDoubleCounting ==
    (\A p \in Procs : ~Running(calls[p]))
    => \A r \in results :
          /\ r.bets_checked = Cardinality(BetsOfContest(bets, r.contest_number))
          /\ r.total_prize = SumPrize(bets, BetsOfContest(bets, r.contest_number))

\* C7: a reconcile call that has returned its error outcome has left no bet
\* settled: every bet it updated is unsettled again.
C7_NoPartialSettlement ==
    \A p \in Procs :
        (HasReturned(p) /\ ~calls[p].ret.success)
        => \A id \in hist[p].wrote : IsNull(bets[id].result_numbers)

\* C8: a call of the manual-entry reconcile for a contest number not yet
\* stored, whose pending query answered with no row, returns checked 0 and
\* totalPrize 0 and the contest's results row is persisted.
C8_EmptyPendingPersistsResult ==
    \A p \in Procs :
        ( /\ HasReturned(p)
          /\ hist[p].queried /\ ~hist[p].rowAtCheck
          /\ hist[p].loaded = Some({}) )
        => /\ calls[p].ret.success
           /\ calls[p].ret.checked = 0
           /\ calls[p].ret.totalPrize = 0
           /\ ExistingRows(results, JsNum(hist[p].contest)) # {}

\* C9: in the multi-source revision, when the cron-triggered checkPendingBets
\* overlaps a force-check or insert-result call for the same contest number,
\* no bets row is updated by both calls.
C9_OverlapNeverBothMutate ==
    \A p, q \in Procs :
        ( /\ p # q
          /\ hist[p].overlapped /\ hist[q].overlapped
          /\ hist[p].contest = hist[q].contest
          /\ calls[p].entry = "cron"
          /\ calls[q].entry \in {"force-check", "insert-result"} )
        => hist[p].wrote \cap hist[q].wrote = {}

\* C10: a call whose INSERT into results was rejected by the UNIQUE constraint
\* on contest_number returns AlreadyProcessed, a success outcome, and has
\* updated no bet.
C10_RejectedInsertIsAlreadyProcessed ==
    \A p \in Procs :
        (HasReturned(p) /\ hist[p].rejected)
        => /\ calls[p].ret.success
           /\ calls[p].ret = AlreadyProcessed
           /\ hist[p].wrote = {}

\* C11: every settled bets row holds in matches the size of the intersection
\* of its numbers with the draw numbers written to it, a value of 0..15.
C11_MatchesIsIntersection ==
    \A id \in DOMAIN bets :
        ~IsNull(bets[id].result_numbers)
        => /\ Val(bets[id].matches) =
                  Cardinality(Elems(bets[id].numbers) \cap Elems(Val(bets[id].result_numbers)))
           /\ Val(bets[id].matches) \in 0..15

\* C12: whenever a pass of the settlement loop writes a bet, the prize written
\* is the entry of the call's prize table for the matches written when these
\* are 11..15, and 0 when they are below 11.
C12_PrizeFromTable ==
    [][\A p \in Procs :
          (calls[p].pc \in {"update", "x_update"} /\ calls'[p].i = calls[p].i + 1)
          => LET id == calls[p].pending[calls[p].i]
                 m == Val(bets'[id].matches)
             IN bets'[id].prize = IF m \in 11..15 THEN calls[p].resultData.prizes[m] ELSE 0]_vars

\* C13: a pass of the manual-entry reconcile that ran alone, found no row for
\* its contest and returned success after settling bets has persisted the
\* contest's row with total_prize the sum of the prizes of the bets it settled,
\* bets_checked their number, total_cost that number times the bet cost and
\* balance total_prize - total_cost, and has returned that number as checked
\* and that sum as totalPrize.
C13_AggregateOfSinglePass ==
    \A p \in Procs :
        ( /\ ReturnedSettled(p)
          /\ ~hist[p].overlapped
          /\ hist[p].queried /\ ~hist[p].rowAtCheck )
        => LET settled == hist[p].wrote
               rows == ExistingRows(results, JsNum(hist[p].contest))
           IN /\ settled # {}
              /\ rows # {}
              /\ \A r \in rows :
                    /\ r.total_prize = SumPrize(bets, settled)
                    /\ r.bets_checked = Cardinality(settled)
                    /\ r.total_cost = Cardinality(settled) * betCost
                    /\ r.balance = r.total_prize - r.total_cost
              /\ calls[p].ret.checked = Cardinality(settled)
              /\ calls[p].ret.totalPrize = SumPrize(bets, settled)

\* C13 witness: the pass has settled the bets 1..15 and 1..10,21..25 of a
\* generateDailyBets run against the draw 1..14,16 of contest 3001: checked
\* 2, and totalPrize the prize of 14 matches.
C13_Witness ==
    \E p \in Procs :
        /\ ReturnedSettled(p) /\ ~hist[p].overlapped
        /\ hist[p].contest = 3001
        /\ hist[p].wrote = {1, 2}
        /\ bets[1].numbers = Range(1, 15)
        /\ bets[2].numbers = Range(1, 10) \o Range(21, 25)
        /\ bets[1].matches = Some(14) /\ bets[2].matches = Some(10)
        /\ calls[p].ret.checked = 2
        /\ calls[p].ret.totalPrize = PRIZE_VALUES[14]
        /\ \E r \in results : r.contest_number = 3001 /\ r.total_cost = 2 * betCost

\* C14: fetchLatestResult tries the adapters in the order Google, Caixa,
\* Loterias; an adapter is invoked only after every adapter before it gave no
\* result, so none is invoked after a success; the call returns the result of
\* the last adapter it invoked, which is the first result in that order, and
\* returns no result only after all three gave none.
C14_FallbackOrder ==
    LET k == Len(fetch.invoked)
    IN /\ fetch.invoked = SubSeq(<<"google", "caixa", "loterias">>, 1, k)
       /\ \A j \in 1..(k - 1) : IsNull(fetch.returned[j])
       /\ fetch.pc \in {"returned", "done"}
          => /\ k >= 1
             /\ fetch.result = fetch.returned[k]
             /\ IsNull(fetch.result) => k = 3
             /\ fetch.result = FetchLatestResult(fetch.net, today).value

\* C14 witness: Google and Caixa gave no result, Loterias was invoked third
\* and its result is the one returned.
C14_Witness ==
    /\ fetch.pc = "returned"
    /\ fetch.invoked = <<"google", "caixa", "loterias">>
    /\ IsNull(fetch.returned[1]) /\ IsNull(fetch.returned[2])
    /\ ~IsNull(fetch.result)
    /\ Val(fetch.result).source = "loterias_api"

\* Whatever the three sources answer, when each adapter gives no result
\* fetchLatestResult returns none.
AllFailedGivesNoResult ==
    \A net \in NetResponses :
        ( /\ IsNull(TryFetchFromGoogle(net[1], today).value)
          /\ IsNull(TryFetchFromCaixa(net[2]).value)
          /\ IsNull(TryFetchFromLoteriasAPI(net[3]).value) )
        => FetchLatestResult(net, today) = Return(Null)

\* The step is a checkPendingBets run in slot p (hourly cron, force-check or
\* check-bets) whose fetchLatestResult returned no result.
FetchedNothing(p) ==
    /\ calls'[p] # calls[p]
    /\ calls'[p].pc = "done"
    /\ calls'[p].entry \in {"cron", "force-check", "check-bets"}
    /\ calls'[p].ret = NoRet

\* C15: when all three adapters give no result fetchLatestResult returns none,
\* and a checkPendingBets run that got no result changes neither table: bets
\* and results are as before and every unsettled bet is still unsettled.
C15_NoResultNoMutation ==
    /\ AllFailedGivesNoResult
    /\ [][\A p \in Procs :
             FetchedNothing(p)
             => bets' = bets /\ results' = results /\ PendingIds(bets') = PendingIds(bets)]_vars

\* C15 witness: a checkPendingBets run has ended without a result while a bet
\* was unsettled, and the bet is unsettled still.
C15_Witness ==
    \E p \in Procs :
        /\ calls[p].pc = "done"
        /\ calls[p].entry \in {"cron", "force-check", "check-bets"}
        /\ calls[p].ret = NoRet
        /\ PendingIds(bets) # {}
        /\ results = {}

\* 15 distinct integers, each of 1..25
ValidNumbers(arr) ==
    /\ Len(arr) = 15
    /\ \A j \in DOMAIN arr : arr[j].t = "number" /\ arr[j].v \in 1..25
    /\ \A j, k \in DOMAIN arr : j # k => arr[j] # arr[k]

\* C16: no adapter returns as its result a candidate whose numbers are not 15
\* distinct numbers of 1..25 (14 numbers, a repeated number, a number 26).
C16_AdaptersRejectInvalidNumbers ==
    \A j \in DOMAIN fetch.returned :
        ~IsNull(fetch.returned[j]) => ValidNumbers(Val(fetch.returned[j]).numbers)

\* The contest number the payload of the source of that name holds, if any
ContestInPayload(name, response) ==
    IF response.kind # "ok" THEN Null
    ELSE CASE name = "google" -> response.contest
           [] name = "caixa" -> response.data.numero
           [] OTHER -> response.data.concurso

\* C17: every result an adapter returns carries as contestNumber the number
\* its payload holds as contest number: a payload without a contest number, or
\* with one that is no numeral, yields no result.
C17_ContestNumberExtracted ==
    \A j \in DOMAIN fetch.returned :
        ~IsNull(fetch.returned[j])
        => LET inPayload == ContestInPayload(fetch.invoked[j], AnswerOf(fetch.net, fetch.invoked[j]))
           IN /\ ~IsNull(inPayload)
              /\ Val(inPayload).t \in {"number", "string"}
              /\ Val(fetch.returned[j]).contestNumber = JsNum(Val(inPayload).v)

\* C18: a payload POST /api/insert-result has passed on to reconcile holds,
\* converted to integers, 15 distinct integers each of 1..25.
C18_AcceptedPayloadIsValid ==
    \A p \in Procs :
        (Running(calls[p]) /\ calls[p].entry = "insert-result")
        => ValidNumbers(calls[p].resultData.numbers)

\* The payload has the shape the adapter reads its result from: it holds the
\* contest number as a numeral, and an array of 15 numerals as the numbers.
ExpectedShape(contest, numbers) ==
    /\ ~IsNull(contest)
    /\ Val(contest).t \in {"number", "string"}
    /\ ~IsNull(numbers)
    /\ Len(Val(numbers)) = 15
    /\ \A j \in DOMAIN Val(numbers) : Val(numbers)[j].t \in {"number", "string"}

\* The source of that name cannot give a result out of this answer: the
\* fetch threw (network error, timeout), the status was no success, the body
\* could not be read, or the payload is of another shape than expected (a
\* page with fewer than 15 numerals of 01..25; a JSON payload without the
\* contest number or with one that is no numeral, without the numbers array
\* or with one that holds other than 15 numerals).
SourceUnavailable(name, response) ==
    \/ response.kind \in {"error", "status", "unparseable"}
    \/ /\ response.kind = "ok"
       /\ CASE name = "google" -> Len(SelectSeq(response.tokens, NumberRegex)) < 15
            [] name = "caixa" ->
                  ~ExpectedShape(response.data.numero, response.data.dezenasSorteadasOrdemSorteio)
            [] OTHER -> ~ExpectedShape(response.data.concurso, response.data.dezenas)

\* C19: no adapter raises to fetchLatestResult, and an adapter invoked on a
\* network error, a timeout, a non-success status, an unreadable body or a
\* payload of another shape than expected has returned null.
C19_AdaptersNeverRaise ==
    /\ fetch.pc # "raised"
    /\ \A j \in DOMAIN fetch.returned :
          SourceUnavailable(fetch.invoked[j], AnswerOf(fetch.net, fetch.invoked[j]))
          => IsNull(fetch.returned[j])

\* The array is in ascending order
Ascending(arr) == \A j, k \in DOMAIN arr : j < k => arr[j] <= arr[k]

\* C20: the draw numbers of every results row, and the result_numbers of every
\* settled bets row, are in ascending order.
C20_PersistedNumbersSorted ==
    /\ \A r \in results : Ascending(r.numbers)
    /\ \A id \in DOMAIN bets :
          ~IsNull(bets[id].result_numbers) => Ascending(Val(bets[id].result_numbers))

\* The step is taken by the call in slot p, and no other call has been in
\* flight since that call started.
StepOfLoneCall(p) == calls'[p] # calls[p] /\ Running(calls[p]) /\ ~hist[p].overlapped

\* C21: once a results row holds the totals a reconcile pass has written
\* (bets_checked above 0), no step of a call made later changes the
\* total_prize or the bets_checked of that row.
C21_AggregateSetOnce ==
    [][\A p \in Procs :
          StepOfLoneCall(p)
          => \A r \in results :
                r.bets_checked > 0
                => \E r2 \in results' :
                      /\ r2.contest_number = r.contest_number
                      /\ r2.total_prize = r.total_prize
                      /\ r2.bets_checked = r.bets_checked]_vars

\* C22: whenever checkBetsWithResult has returned its error outcome to
\* POST /api/insert-result, the route's response signals failure: an error
\* status and success false.
C22_FailureReportedAsFailure ==
    \A p \in Procs :
        ( /\ calls[p].entry = "insert-result"
          /\ HasReturned(p)
          /\ ~calls[p].ret.success )
        => /\ calls[p].resp.status >= 400
           /\ ~calls[p].resp.success

\* C23: every bets row holds exactly 15 distinct numbers, each of 1..25.
C23_GeneratedBetsAreValid ==
    \A id \in DOMAIN bets :
        /\ Len(bets[id].numbers) = 15
        /\ SetSize(bets[id].numbers) = 15
        /\ \A j \in DOMAIN bets[id].numbers : bets[id].numbers[j] \in 1..25

\* C24: the results table never holds two rows of one contest number, and no
\* step removes a stored row or changes its numbers.
C24_OneRowPerContest ==
    /\ [](\A r1, r2 \in results : r1.contest_number = r2.contest_number => r1 = r2)
    /\ [][\A r \in results :
             \E r2 \in results' :
                r2.contest_number = r.contest_number /\ r2.numbers = r.numbers]_vars

\* C24 witness: a call's INSERT for a contest was rejected because another
\* call had stored the contest in the meantime, and the stored row has since
\* taken the totals of a pass.
C24_Witness ==
    \E p \in Procs :
        /\ hist[p].rejected
        /\ calls[p].pc = "done"
        /\ \E r \in results : r.contest_number = hist[p].contest /\ r.bets_checked > 0

\* C25: a reconcile call has updated a bets row only when the results row of
\* its contest is stored: the row is inserted before the first bet is written.
C25_ResultRowBeforeBets ==
    \A p \in Procs :
        hist[p].wrote # {} => ExistingRows(results, JsNum(hist[p].contest)) # {}

\* The step is the write of the totals by the call in slot p: the INSERT of
\* the manual-entry revision, the UPDATE of results of the other two.
WritesAggregate(p) ==
    /\ calls[p].pc \in {"insert", "x_totals", "s_totals"}
    /\ hist'[p].wroteResults = hist[p].wroteResults + 1

\* C26: when a call writes the totals to its contest's row, every bet of the
\* pending list it loaded has been written by it: the loop is over, and the
\* bets_checked written is the number of bets the call has written.
C26_AggregateAfterAllBets ==
    [][\A p \in Procs :
          WritesAggregate(p)
          => /\ Elems(calls[p].pending) \subseteq hist[p].wrote
             /\ calls[p].i = Len(calls[p].pending) + 1
             /\ \E r \in results' :
                   /\ r.contest_number = hist[p].contest
                   /\ r.bets_checked = Cardinality(hist[p].wrote)]_vars

\* C26 witness: a pass that loaded two pending bets has written both and then
\* the totals, bets_checked 2.
C26_Witness ==
    \E p \in Procs :
        /\ ReturnedSettled(p)
        /\ hist[p].loaded = Some({1, 2})
        /\ hist[p].wrote = {1, 2}
        /\ \E r \in results : r.contest_number = hist[p].contest /\ r.bets_checked = 2

\* C27: a pass of the manual-entry reconcile that returned success with
\* checked n > 0, no other call having been in flight during it, has settled
\* exactly the n bets its pending query returned, each with the contest
\* number and the draw numbers of the call.
C27_SettlesAllLoaded ==
    \A p \in Procs :
        ( /\ ReturnedSettled(p)
          /\ ~hist[p].overlapped
          /\ calls[p].ret.checked > 0 )
        => /\ hist[p].loaded = Some(hist[p].wrote)
           /\ calls[p].ret.checked = Cardinality(hist[p].wrote)
           /\ \A id \in hist[p].wrote :
                 /\ bets[id].contest_number = Some(hist[p].contest)
                 /\ \E r \in ExistingRows(results, JsNum(hist[p].contest)) :
                       bets[id].result_numbers = Some(r.numbers)

\* C27 witness: the pass loaded the one pending bet and settled it under its
\* contest; a bet generated after the load is still unsettled.
C27_Witness ==
    \E p \in Procs :
        /\ ReturnedSettled(p) /\ ~hist[p].overlapped
        /\ calls[p].ret.checked = 1
        /\ hist[p].loaded = Some({1})
        /\ bets[1].contest_number = Some(hist[p].contest)
        /\ Len(bets) = 2
        /\ hist[p].betsAtLoad = 1
        /\ IsNull(bets[2].result_numbers)

\* C28: within one fetchLatestResult call no source is called twice, at most
\* one source is outstanding at any time (the next is called only once the
\* one before has ended), at most three are called, and, every source called
\* ending, the call ends.
C28_EachAdapterOnceInTurn ==
    /\ [](/\ Len(fetch.invoked) <= 3
          /\ \A j, k \in DOMAIN fetch.invoked : j # k => fetch.invoked[j] # fetch.invoked[k]
          /\ Len(fetch.invoked) - Len(fetch.returned) \in {0, 1}
          /\ fetch.pc = "loop" => Len(fetch.invoked) = Len(fetch.returned)
          /\ fetch.pc = "await" => Len(fetch.invoked) = Len(fetch.returned) + 1)
    /\ (fetch.pc \in {"loop", "await"}) ~> (fetch.pc \in {"returned", "raised"})

\* C28 witness: the call has ended without a result after the third source.
C28_Witness ==
    /\ fetch.pc = "returned"
    /\ Len(fetch.invoked) = 3
    /\ Len(fetch.returned) = 3
    /\ IsNull(fetch.result)

\* The numerals of 01..25 standing in a Google page, in page order
NumeralsInRange(page) == SelectSeq(page.tokens, LAMBDA x : x.v \in 1..25)

\* C29: tryFetchFromGoogle has returned a result only with 15 distinct numbers
\* of 1..25, and has returned null for a page that holds fewer than 15
\* numerals of 01..25 or whose first 15 hold a repeated value.
C29_GoogleValidatesNumbers ==
    \A j \in DOMAIN fetch.returned :
        fetch.invoked[j] = "google"
        => LET page == AnswerOf(fetch.net, "google")
               r == fetch.returned[j]
           IN /\ ~IsNull(r) => ValidNumbers(Val(r).numbers)
              /\ ( /\ page.kind = "ok"
                   /\ \/ Len(NumeralsInRange(page)) < 15
                      \/ SetSize(SubSeq(NumeralsInRange(page), 1, 15)) < 15 )
                 => IsNull(r)

\* C29 witness: Google was called on a page whose first 15 numerals repeat a
\* value, and returned null.
C29_Witness ==
    /\ Len(fetch.returned) >= 1
    /\ fetch.invoked[1] = "google"
    /\ fetch.net[1].kind = "ok"
    /\ Len(NumeralsInRange(fetch.net[1])) >= 15
    /\ SetSize(SubSeq(NumeralsInRange(fetch.net[1]), 1, 15)) < 15
    /\ IsNull(fetch.returned[1])

\* C30: a call of the multi-source reconcile whose existence query found no
\* row for its contest and whose pending query answered with no row has
\* returned success with checked 0 and totalPrize 0, the contest's row is
\* stored, and the call has written no bet.
C30_MultiEmptyPendingPersistsResult ==
    \A p \in Procs :
        ( /\ HasReturned(p)
          /\ hist[p].queried /\ ~hist[p].rowAtCheck
          /\ hist[p].loaded = Some({}) )
        => /\ calls[p].ret.success
           /\ calls[p].ret.checked = 0
           /\ calls[p].ret.totalPrize = 0
           /\ ExistingRows(results, JsNum(hist[p].contest)) # {}
           /\ hist[p].wroteResults = 1
           /\ hist[p].wrote = {}

\* C30 witness: such a call has returned with no bet in the store, and the
\* row of its contest holds no totals.
C30_Witness ==
    \E p \in Procs :
        /\ HasReturned(p)
        /\ hist[p].queried /\ ~hist[p].rowAtCheck
        /\ hist[p].loaded = Some({})
        /\ bets = <<>>
        /\ \E r \in results : r.contest_number = hist[p].contest /\ r.bets_checked = 0

\* C31: a checkPendingBets run of src/server.js whose fetch was answered with
\* a non-success status by both sources got no result: it has returned
\* without a store query, and has written neither a bets row nor a results
\* row.
C31_BothNonSuccessNoResult ==
    \A p \in Procs :
        hist[p].bothNonSuccess
        => /\ ~Running(calls[p])
           /\ ~hist[p].queried
           /\ hist[p].wrote = {}
           /\ hist[p].wroteResults = 0

\* C32: a result tryFetchFromCaixa has returned prices 16 - f matches with the
\* valorPremio of the payout item of faixa f (f of 1..5), and with 0 where the
\* payload holds no such item, no payout list, or a payout list that is no
\* array; and the adapter returns a result for every payload that holds the
\* numbers, whatever its payout list.
C32_CaixaPrizeTiers ==
    \A j \in DOMAIN fetch.returned :
        (fetch.invoked[j] = "caixa" /\ AnswerOf(fetch.net, "caixa").kind = "ok")
        => LET data == AnswerOf(fetch.net, "caixa").data
               lista == data.listaRateioPremio
               items == IF ~IsNull(lista) /\ Val(lista).t = "array" THEN Val(lista).items ELSE <<>>
               r == fetch.returned[j]
           IN /\ ~IsNull(data.dezenasSorteadasOrdemSorteio) => ~IsNull(r)
              /\ ~IsNull(r)
                 => /\ DOMAIN Val(r).prizes = 11..15
                    /\ \A f \in 1..5 :
                          /\ \A k \in DOMAIN items :
                                items[k].faixa = f => Val(r).prizes[16 - f] = items[k].valorPremio
                          /\ (\A k \in DOMAIN items : items[k].faixa # f)
                             => Val(r).prizes[16 - f] = 0

\* C32 witness: Caixa has returned results for a payload with all five tiers,
\* priced by them; the payloads without a payout list are covered by the
\* second witness state.
C32_Witness ==
    /\ Len(fetch.returned) = 2
    /\ fetch.invoked[2] = "caixa"
    /\ ~IsNull(fetch.returned[2])
    /\ \/ /\ fetch.net[2].data.listaRateioPremio = Some(JsArray(FullRateio))
          /\ Val(fetch.returned[2]).prizes[15] = 120000000
          /\ Val(fetch.returned[2]).prizes[11] = 600
       \/ /\ fetch.net[2].data.listaRateioPremio = Some(JsText)
          /\ Val(fetch.returned[2]).prizes = [m \in 11..15 |-> 0]

\* No reconcile call is in progress
Quiescent == \A p \in Procs : ~Running(calls[p])

\* The persisted results row bet id was settled against: the row of the bet's
\* contest_number holding the bet's result_numbers
HasResultRow(id) ==
    \E r \in results :
        /\ r.contest_number = Val(bets[id].contest_number)
        /\ r.numbers = Val(bets[id].result_numbers)

\* C33: while no reconcile call is in progress, every settled bet's
\* contest_number is that of a persisted results row, and the bet's
\* result_numbers are that row's numbers.
C33_SettledBetsHaveTheirRow ==
    Quiescent
    => \A id \in DOMAIN bets :
          ~IsNull(bets[id].result_numbers) => HasResultRow(id)

\* The bets that are settled
SettledIds(bs) == {id \in DOMAIN bs : ~IsNull(bs[id].result_numbers)}

\* C34: a step of a reconcile call that overlaps no other reconcile call
\* leaves every settled bet as it is, in all its columns; the bets that were
\* settled when the call started are settled at each of its steps, so the call
\* leaves them unchanged.
C34_SettledBetsUntouched ==
    [][\A p \in Procs :
          StepOfLoneCall(p)
          => \A id \in SettledIds(bets) : id \in DOMAIN bets' /\ bets'[id] = bets[id]]_vars

\* C34 witness: a reconcile call that overlapped no other has returned after
\* settling bet 2, and bet 1, settled by an earlier call under another
\* contest, is in the table.
C34_Witness ==
    \E p \in Procs :
        /\ ~Running(calls[p])
        /\ ~hist[p].overlapped
        /\ hist[p].wrote = {2}
        /\ SettledIds(bets) = {1, 2}
        /\ Val(bets[2].contest_number) = hist[p].contest
        /\ Val(bets[1].contest_number) # hist[p].contest

\* The bets inserted after the pass in slot p loaded its pending list, no
\* other reconcile call having been in flight during the pass
InsertedAfterLoad(p) ==
    IF IsNull(hist[p].loaded) \/ hist[p].overlapped THEN {}
    ELSE {id \in DOMAIN bets : id > hist[p].betsAtLoad /\ id \notin Val(hist[p].loaded)}

\* C35: a bet inserted after a manual-entry reconcile pass loaded its pending
\* list is not settled by that pass, and is not in its checked count, in its
\* totals or in the bets_checked and total_cost of the row it persists: the
\* pass settles bets of its loaded list only, and counts exactly those. Each
\* step of the pass leaves the bet as it is, so that it is unsettled until a
\* pass that has loaded it settles it.
C35_LateBetLeftPending ==
    /\ [](\A p \in Procs :
            LET late == InsertedAfterLoad(p)
            IN /\ late \cap hist[p].wrote = {}
               /\ Running(calls[p]) => late \subseteq PendingIds(bets)
               /\ calls[p].checkedCount <= Cardinality(DOMAIN bets \ late)
               /\ (ReturnedSettled(p) /\ late # {})
                  => /\ calls[p].ret.checked = Cardinality(Val(hist[p].loaded))
                     /\ calls[p].ret.totalPrize = SumPrize(bets, Val(hist[p].loaded))
                     /\ \A r \in ExistingRows(results, JsNum(hist[p].contest)) :
                           /\ r.bets_checked = Cardinality(Val(hist[p].loaded))
                           /\ r.total_cost = Cardinality(Val(hist[p].loaded)) * betCost
                           /\ r.total_prize = SumPrize(bets, Val(hist[p].loaded)))
    /\ [][\A id \in PendingIds(bets) :
             (id \in DOMAIN bets' /\ ~IsNull(bets'[id].result_numbers))
             => \E q \in Procs :
                   /\ calls'[q] # calls[q]
                   /\ ~IsNull(hist[q].loaded)
                   /\ id \in Val(hist[q].loaded)]_vars

\* C35 witness: the pass loaded bet 1 alone and has settled it; bet 2,
\* inserted while the pass was in its loop, is unsettled as the pass is about
\* to persist its row with a count of one.
C35_Witness ==
    \E p \in Procs :
        /\ calls[p].pc = "insert"
        /\ hist[p].loaded = Some({1})
        /\ hist[p].wrote = {1}
        /\ InsertedAfterLoad(p) = {2}
        /\ IsNull(bets[2].result_numbers)
        /\ calls[p].checkedCount = 1

\* The first 15 distinct values of arr in the order of arr: the numbers that
\* stand where fewer than 15 distinct values have come before
FirstFifteenDistinct(arr) ==
    {arr[k] : k \in {j \in DOMAIN arr : Cardinality({arr[i] : i \in 1..(j - 1)}) < 15}}

====
